---- MODULE Spec2Model ----
(***************************************************************************)
(* Budget-constrained research orchestrator (deep_research_challenge):     *)
(* the workflow state machine, the resource budget and its trail           *)
(* allocation, the conduct_research run loop, the trail manager and the    *)
(* trail execution engine, the agent registry, the handoff controller and  *)
(* the trail discovery.                                                    *)
(*                                                                         *)
(* The specifications share the module's variables:                        *)
(*   SpecSM       ResearchStateMachine driven by arbitrary calls           *)
(*   SpecBudget   a family of ResearchBudget objects driven by arbitrary   *)
(*                calls (consume, depth changes, allocate_for_trail)       *)
(*   SpecRun      one conduct_research run of a ResearchCoordinator        *)
(*   SpecTM       a TrailManager driven by arbitrary calls                 *)
(*   SpecPar      one execute_trails_parallel call and its tasks           *)
(*   SpecReg      an AgentRegistry with concurrent invoke_agent_tool calls *)
(*   SpecHandoff  a HandoffController over a registry                      *)
(*   SpecDisc     a TrailDiscovery under successive discover_trails calls  *)
(* Each specification leaves the variables of the others untouched.        *)
(***************************************************************************)
EXTENDS Integers, Sequences, FiniteSets, TLC

VARIABLES
    ctx_state,        \* ResearchContext.state
    state_history,    \* ResearchStateMachine._state_history
    ctx_metadata,     \* ResearchContext.metadata (the 'failure_reason' key)
    sm_last,          \* the last state-machine call: its arguments, pre-state and outcome
    budgets,          \* heap of ResearchBudget objects (a sequence; index = identity)
    usages,           \* heap of ResourceUsage objects referenced by budgets[i].current_usage
    links,            \* per budget: how it was allocated (0 parent for a constructed budget)
    b_last,           \* the last budget call: its arguments, pre-heap and outcome
    steps,            \* number of budget calls made (bounds SpecBudget)
    pc,               \* position of the conduct_research generator
    yields,           \* kinds of the items conduct_research has yielded, in order
    escaped,          \* the exception that left conduct_research ("none" if none)
    config,           \* ResearchConfig: trail settings of the coordinator
    plan,             \* searches of the plan not yet executed (search_plan.searches[:5])
    ctx_findings,     \* ResearchContext.findings (finding ids)
    ctx_trails,       \* ResearchContext.research_trails (trail ids)
    suggestions,      \* trail suggestions _follow_trails has not yet processed
    trails,           \* heap of ResearchTrail objects (index = id)
    tm,               \* TrailManager: active list, completed list, visited set, breadcrumbs
    cur_trail,        \* the trail whose search invocation is awaited (0 if none)
    next_finding,     \* next fresh finding id (uuid4)
    tm_last,          \* the last TrailManager call: its arguments, pre-state and result
    tm_log,           \* TrailManager calls so far: successful creations, trails started
    par,              \* one execute_trails_parallel call: semaphore, tasks, result
    registry,         \* AgentRegistry: _agents and _capability_map
    invocations,      \* invoke_agent_tool calls in flight, and how the finished ones ended
    handoff,          \* HandoffController, the context's handoff_history, the call in progress
    discovery         \* TrailDiscovery._discovered_trails and its discover_trails calls

sm_vars == <<ctx_state, state_history, ctx_metadata, sm_last>>
budget_vars == <<budgets, usages, links, b_last, steps>>
aux_vars == <<par, registry, invocations, handoff, discovery>>
run_vars == <<pc, yields, escaped, config, plan, ctx_findings, ctx_trails, suggestions,
              trails, tm, cur_trail, next_finding, tm_last, tm_log, aux_vars>>
vars == <<sm_vars, budget_vars, run_vars>>

\* The engine, the registry, the handoff controller and the trail discovery
\* are not in use.
AuxIdle ==
    /\ par = [phase |-> "idle"]
    /\ registry = [phase |-> "idle"]
    /\ invocations = [phase |-> "idle"]
    /\ handoff = [phase |-> "idle"]
    /\ discovery = [phase |-> "idle"]

(***************************************************************************)
(* Bounds of the model.                                                    *)
(***************************************************************************)
MaxHistory == 7
MaxSteps == 4
MaxBudgets == 3
MaxPlanLength == 6
MaxManagerCalls == 5

(***************************************************************************)
(* models.py: ResearchState                                                *)
(***************************************************************************)
ResearchState ==
    {"INITIALIZING", "CLARIFYING", "PLANNING", "SEARCHING", "EVALUATING",
     "TRAIL_FOLLOWING", "SYNTHESIZING", "COMPLETED", "FAILED"}

\* Failure reasons handed to force_fail (free text in the code).
Reasons == {"Test failure", "agent timed out"}

NoReason == "<absent>"

(***************************************************************************)
(* state_machine.py: ResearchStateMachine                                  *)
(***************************************************************************)
TRANSITIONS_completed_can_fail ==
    [s \in ResearchState |->
        CASE s = "INITIALIZING"    -> {"CLARIFYING", "PLANNING", "FAILED"}
          [] s = "CLARIFYING"      -> {"PLANNING", "FAILED"}
          [] s = "PLANNING"        -> {"SEARCHING", "FAILED"}
          [] s = "SEARCHING"       -> {"EVALUATING", "FAILED"}
          [] s = "EVALUATING"      -> {"TRAIL_FOLLOWING", "SYNTHESIZING", "SEARCHING", "FAILED"}
          [] s = "TRAIL_FOLLOWING" -> {"EVALUATING", "SYNTHESIZING", "FAILED"}
          [] s = "SYNTHESIZING"    -> {"COMPLETED", "FAILED"}
          [] s = "COMPLETED"       -> {"FAILED"}
          [] s = "FAILED"          -> {}]

TRANSITIONS_without_trail_following ==
    [s \in ResearchState |->
        CASE s = "INITIALIZING"    -> {"CLARIFYING", "PLANNING", "FAILED"}
          [] s = "CLARIFYING"      -> {"PLANNING", "FAILED"}
          [] s = "PLANNING"        -> {"SEARCHING", "FAILED"}
          [] s = "SEARCHING"       -> {"EVALUATING", "FAILED"}
          [] s = "EVALUATING"      -> {"SYNTHESIZING", "SEARCHING", "FAILED"}
          [] s = "TRAIL_FOLLOWING" -> {"EVALUATING", "SYNTHESIZING", "FAILED"}
          [] s = "SYNTHESIZING"    -> {"COMPLETED", "FAILED"}
          [] s = "COMPLETED"       -> {}
          [] s = "FAILED"          -> {}]

TRANSITIONS ==
    [s \in ResearchState |->
        CASE s = "INITIALIZING"    -> {"CLARIFYING", "PLANNING", "FAILED"}
          [] s = "CLARIFYING"      -> {"PLANNING", "FAILED"}
          [] s = "PLANNING"        -> {"SEARCHING", "FAILED"}
          [] s = "SEARCHING"       -> {"EVALUATING", "FAILED"}
          [] s = "EVALUATING"      -> {"TRAIL_FOLLOWING", "SYNTHESIZING", "SEARCHING", "FAILED"}
          [] s = "TRAIL_FOLLOWING" -> {"EVALUATING", "SYNTHESIZING", "FAILED"}
          [] s = "SYNTHESIZING"    -> {"COMPLETED", "FAILED"}
          [] s = "COMPLETED"       -> {}
          [] s = "FAILED"          -> {}]

can_transition_always(current_state, to_state) == TRUE

\* can_transition: to_state in TRANSITIONS.get(current_state, set())
can_transition(current_state, to_state) ==
    to_state \in TRANSITIONS[current_state]

\* The machine as a value: the context's state and metadata, and the history log.
Machine(s, h, md) == [state |-> s, history |-> h, metadata |-> md]

\* transition: raises before touching anything, else update_state and append.
transition(sm, to_state) ==
    IF ~can_transition(sm.state, to_state)
    THEN [sm |-> sm, raised |-> "StateTransitionError"]
    ELSE [sm |-> [sm EXCEPT !.state = to_state,
                            !.history = Append(@, to_state)],
          raised |-> "none"]

\* is_terminal_state: context.state in {COMPLETED, FAILED}
is_terminal_state(s) == s \in {"COMPLETED", "FAILED"}

force_fail_by_table(sm, reason) ==
    IF can_transition(sm.state, "FAILED")
    THEN [sm |-> [sm EXCEPT !.state = "FAILED",
                            !.metadata = reason,
                            !.history = Append(@, "FAILED")],
          raised |-> "none"]
    ELSE [sm |-> sm, raised |-> "StateTransitionError"]

\* force_fail: update_state(FAILED), metadata['failure_reason'] = reason, append.
force_fail(sm, reason) ==
    [sm |-> [sm EXCEPT !.state = "FAILED",
                       !.metadata = reason,
                       !.history = Append(@, "FAILED")],
     raised |-> "none"]

\* ResearchContext(query) + ResearchStateMachine(context)
SMInit ==
    /\ ctx_state = "INITIALIZING"
    /\ state_history = <<"INITIALIZING">>
    /\ ctx_metadata = NoReason
    /\ sm_last = [op |-> "init", arg |-> "", pre |-> Machine("INITIALIZING", <<>>, NoReason),
                  raised |-> "none", forced |-> FALSE]

CurrentMachine == Machine(ctx_state, state_history, ctx_metadata)

SMApply(op, arg, r) ==
    /\ ctx_state' = r.sm.state
    /\ state_history' = r.sm.history
    /\ ctx_metadata' = r.sm.metadata
    /\ sm_last' = [op |-> op, arg |-> arg, pre |-> CurrentMachine, raised |-> r.raised,
                   forced |-> sm_last.forced \/ op = "force_fail"]

\* A caller invokes transition(to_state) with any target.
Transition(to_state) ==
    /\ Len(state_history) < MaxHistory
    /\ SMApply("transition", to_state, transition(CurrentMachine, to_state))
    /\ UNCHANGED <<budget_vars, run_vars>>

\* A caller invokes force_fail(reason).
ForceFail(reason) ==
    /\ Len(state_history) < MaxHistory
    /\ SMApply("force_fail", reason, force_fail(CurrentMachine, reason))
    /\ UNCHANGED <<budget_vars, run_vars>>

(***************************************************************************)
(* Exact rational numbers <<numerator, denominator>> for the float fields   *)
(* (time_seconds, max_time_seconds, percentage): a child's time cap is the  *)
(* parent's remaining time times a percentage, which is no integer.         *)
(***************************************************************************)
RECURSIVE GCD(_, _)
GCD(a, b) == IF b = 0 THEN a ELSE GCD(b, a % b)

Abs(n) == IF n < 0 THEN -n ELSE n

Rat(n, d) ==
    LET g == GCD(Abs(n), d)
    IN  <<n \div g, d \div g>>

RZero == <<0, 1>>
RInt(n) == <<n, 1>>
RAdd(a, b) == Rat(a[1] * b[2] + b[1] * a[2], a[2] * b[2])
RSub(a, b) == Rat(a[1] * b[2] - b[1] * a[2], a[2] * b[2])
RMul(a, b) == Rat(a[1] * b[1], a[2] * b[2])
RLe(a, b) == a[1] * b[2] <= b[1] * a[2]
RLt(a, b) == a[1] * b[2] < b[1] * a[2]
RMax(a, b) == IF RLe(a, b) THEN b ELSE a

\* int(n * p) for an integer n and a float p: truncation toward zero.
IntOfProduct(n, p) ==
    LET num == n * p[1]
    IN  IF num >= 0 THEN num \div p[2] ELSE -((-num) \div p[2])

Max(a, b) == IF a >= b THEN a ELSE b

(***************************************************************************)
(* models.py: ResourceUsage; budget.py: Operation, ResearchBudget           *)
(***************************************************************************)
\* ResourceUsage(): the dataclass defaults.
ResourceUsage(t, c, s) == [tokens_used |-> t, api_calls |-> c, time_seconds |-> s]

ZeroUsage == ResourceUsage(0, 0, RZero)

\* ResourceUsage.add
add(self, other) ==
    ResourceUsage(self.tokens_used + other.tokens_used,
                  self.api_calls + other.api_calls,
                  RAdd(self.time_seconds, other.time_seconds))

Operation(name, tokens, calls, seconds) ==
    [name |-> name, estimated_tokens |-> tokens, estimated_api_calls |-> calls,
     estimated_time_seconds |-> seconds]

\* Operation.to_usage
to_usage(op) ==
    ResourceUsage(op.estimated_tokens, op.estimated_api_calls, op.estimated_time_seconds)

\* A ResearchBudget object; current_usage is a reference into the usages heap.
ResearchBudget(mt, ms, mc, md, cu) ==
    [max_tokens |-> mt, max_time_seconds |-> ms, max_api_calls |-> mc,
     max_trail_depth |-> md, current_usage |-> cu, trail_depth |-> 0]

\* Budget i of heap (B, U) with its current_usage reference followed.
View(B, U, i) == [B[i] EXCEPT !.current_usage = U[B[i].current_usage]]

can_afford_ignoring_time(b, op) ==
    /\ ~(b.current_usage.tokens_used + op.estimated_tokens > b.max_tokens)
    /\ ~(b.current_usage.api_calls + op.estimated_api_calls > b.max_api_calls)

\* can_afford: false as soon as one dimension would exceed its cap.
can_afford(b, op) ==
    /\ ~(b.current_usage.tokens_used + op.estimated_tokens > b.max_tokens)
    /\ ~(b.current_usage.api_calls + op.estimated_api_calls > b.max_api_calls)
    /\ ~RLt(b.max_time_seconds, RAdd(b.current_usage.time_seconds, op.estimated_time_seconds))

\* can_afford_trail
can_afford_trail(b) == b.trail_depth < b.max_trail_depth

consume_nothing(B, U, i, op) == U

\* consume: current_usage.add(operation.to_usage()), on the referenced object.
consume(B, U, i, op) ==
    [U EXCEPT ![B[i].current_usage] = add(@, to_usage(op))]

\* increment_trail_depth
increment_trail_depth(B, i) == [B EXCEPT ![i].trail_depth = @ + 1]

decrement_trail_depth_skipped(B, i) == B

decrement_trail_depth_unguarded(B, i) == [B EXCEPT ![i].trail_depth = @ - 1]

\* decrement_trail_depth: only when trail_depth > 0.
decrement_trail_depth(B, i) ==
    IF B[i].trail_depth > 0 THEN [B EXCEPT ![i].trail_depth = @ - 1] ELSE B

\* remaining: elementwise max(0, cap - used).
remaining(b) ==
    ResourceUsage(Max(0, b.max_tokens - b.current_usage.tokens_used),
                  Max(0, b.max_api_calls - b.current_usage.api_calls),
                  RMax(RZero, RSub(b.max_time_seconds, b.current_usage.time_seconds)))

is_exhausted_all_dimensions(b) ==
    /\ b.current_usage.tokens_used >= b.max_tokens
    /\ b.current_usage.api_calls >= b.max_api_calls
    /\ RLe(b.max_time_seconds, b.current_usage.time_seconds)

\* is_exhausted: any one dimension at or over its cap.
is_exhausted(b) ==
    \/ b.current_usage.tokens_used >= b.max_tokens
    \/ b.current_usage.api_calls >= b.max_api_calls
    \/ RLe(b.max_time_seconds, b.current_usage.time_seconds)

\* utilization_percent: used / cap * 100 in each dimension, 0 for a cap that
\* is not positive.
utilization_percent(b) ==
    [tokens |-> IF b.max_tokens > 0
                THEN Rat(b.current_usage.tokens_used * 100, b.max_tokens) ELSE RZero,
     api_calls |-> IF b.max_api_calls > 0
                   THEN Rat(b.current_usage.api_calls * 100, b.max_api_calls) ELSE RZero,
     time |-> IF RLt(RZero, b.max_time_seconds)
              THEN RMul(b.current_usage.time_seconds,
                        Rat(100 * b.max_time_seconds[2], b.max_time_seconds[1]))
              ELSE RZero,
     trail_depth |-> IF b.max_trail_depth > 0
                     THEN Rat(b.trail_depth * 100, b.max_trail_depth) ELSE RZero]

\* is_near_limit(threshold): some utilization at or over threshold * 100.
is_near_limit(b, threshold) ==
    LET util == utilization_percent(b)
    IN  \E k \in DOMAIN util : RLe(RMul(threshold, RInt(100)), util[k])

\* Thresholds handed to is_near_limit: the default 0.9, 0.5 and 1.0.
Thresholds == { <<9, 10>>, <<1, 2>>, <<1, 1>> }

allocate_from_total(B, U, i, percentage) ==
    [budgets |-> Append(B, ResearchBudget(
                     IntOfProduct(B[i].max_tokens, percentage),
                     RMul(B[i].max_time_seconds, percentage),
                     IntOfProduct(B[i].max_api_calls, percentage),
                     Max(1, B[i].max_trail_depth - B[i].trail_depth - 1),
                     Len(U) + 1)),
     usages |-> Append(U, ZeroUsage)]

allocate_sharing_usage(B, U, i, percentage) ==
    LET rem == remaining(View(B, U, i))
    IN  [budgets |-> Append(B, ResearchBudget(
                         IntOfProduct(rem.tokens_used, percentage),
                         RMul(rem.time_seconds, percentage),
                         IntOfProduct(rem.api_calls, percentage),
                         Max(1, B[i].max_trail_depth - B[i].trail_depth - 1),
                         B[i].current_usage)),
         usages |-> U]

\* allocate_for_trail: a new ResearchBudget (fresh current_usage from the
\* default factory, trail_depth 0) capped at percentage of what remains.
allocate_for_trail(B, U, i, percentage) ==
    LET rem == remaining(View(B, U, i))
    IN  [budgets |-> Append(B, ResearchBudget(
                         IntOfProduct(rem.tokens_used, percentage),
                         RMul(rem.time_seconds, percentage),
                         IntOfProduct(rem.api_calls, percentage),
                         Max(1, B[i].max_trail_depth - B[i].trail_depth - 1),
                         Len(U) + 1)),
         usages |-> Append(U, ZeroUsage)]

(***************************************************************************)
(* SpecBudget: budgets driven by arbitrary calls.                           *)
(***************************************************************************)
\* Constructor arguments of the root budget (tests/test_budget.py; the
\* depth cap 1 is that of create_development).
RootMaxTokens == 1000
RootMaxTimeSeconds == 60
RootMaxApiCalls == 10
RootTrailDepths == {1, 2}

\* Operations handed to can_afford / consume.
OpSet ==
    { Operation("small", 100, 1, RZero),
      Operation("test", 1000, 1, RZero),
      Operation("timed", 500, 1, RInt(5)),
      Operation("calls", 0, 10, RZero),
      Operation("wait", 0, 0, RInt(60)) }

\* Percentages handed to allocate_for_trail: 0.2, 0.15 and 1.0.
Percentages == { <<1, 5>>, <<3, 20>>, <<1, 1>> }

NoLink == [parent |-> 0, parent_view |-> <<>>, percentage |-> RZero]

BudgetInit ==
    /\ \E md \in RootTrailDepths :
          budgets = << ResearchBudget(RootMaxTokens, RInt(RootMaxTimeSeconds),
                                      RootMaxApiCalls, md, 1) >>
    /\ usages = << ZeroUsage >>
    /\ links = << NoLink >>
    /\ b_last = [op |-> "init", target |-> 0, arg |-> <<>>,
                 budgets |-> <<>>, usages |-> <<>>]
    /\ steps = 0

BLast(op, i, arg) ==
    [op |-> op, target |-> i, arg |-> arg, budgets |-> budgets, usages |-> usages]

Consume(i, op) ==
    /\ steps < MaxSteps
    /\ usages' = consume(budgets, usages, i, op)
    /\ b_last' = BLast("consume", i, op)
    /\ steps' = steps + 1
    /\ UNCHANGED <<budgets, links>>

IncrementTrailDepth(i) ==
    /\ steps < MaxSteps
    /\ budgets' = increment_trail_depth(budgets, i)
    /\ b_last' = BLast("increment_trail_depth", i, <<>>)
    /\ steps' = steps + 1
    /\ UNCHANGED <<usages, links>>

DecrementTrailDepth(i) ==
    /\ steps < MaxSteps
    /\ budgets' = decrement_trail_depth(budgets, i)
    /\ b_last' = BLast("decrement_trail_depth", i, <<>>)
    /\ steps' = steps + 1
    /\ UNCHANGED <<usages, links>>

AllocateForTrail(i, percentage) ==
    /\ steps < MaxSteps
    /\ Len(budgets) < MaxBudgets
    /\ LET r == allocate_for_trail(budgets, usages, i, percentage)
       IN  /\ budgets' = r.budgets
           /\ usages' = r.usages
    /\ links' = Append(links, [parent |-> i, parent_view |-> View(budgets, usages, i),
                               percentage |-> percentage])
    /\ b_last' = BLast("allocate_for_trail", i, percentage)
    /\ steps' = steps + 1

(***************************************************************************)
(* trail_manager.py: TrailManager.  Trails are objects of the heap          *)
(* `trails`; the manager's lists hold their ids.                            *)
(***************************************************************************)
\* Trail queries, and str.lower() on them.
Queries == {"More about: AI safety", "more about: ai safety", "More about: robotics",
            "More about: budgets"}

Lower(q) ==
    CASE q = "More about: AI safety" -> "more about: ai safety"
      [] q = "More about: robotics"  -> "more about: robotics"
      [] q = "More about: budgets"   -> "more about: budgets"
      [] OTHER                       -> q

\* TrailManager(max_concurrent_trails)
TrailManager(max_concurrent) ==
    [max_concurrent_trails |-> max_concurrent, active |-> <<>>, completed |-> <<>>,
     visited |-> {}, breadcrumbs |-> {}]

\* ResearchTrail(...): a new trail object, PENDING and without findings.
ResearchTrail(id, query, relevance, budget) ==
    [id |-> id, trail_query |-> query, relevance_score |-> relevance,
     budget_allocated |-> budget, findings |-> <<>>, status |-> "PENDING"]

InSeq(x, seq) == \E k \in 1..Len(seq) : seq[k] = x

\* _find_trail: the active list, then the completed list; 0 for None.
find_trail(M, trail_id) ==
    IF InSeq(trail_id, M.active) \/ InSeq(trail_id, M.completed) THEN trail_id ELSE 0

\* _would_create_loop
would_create_loop(M, query) == Lower(query) \in M.breadcrumbs

create_trail_without_visited_gate(M, T, trail_query, relevance_score, budget) ==
    IF would_create_loop(M, trail_query)
    THEN [tm |-> M, trails |-> T, trail |-> 0]
    ELSE IF Len(M.active) >= M.max_concurrent_trails
    THEN [tm |-> M, trails |-> T, trail |-> 0]
    ELSE LET id == Len(T) + 1
         IN  [tm |-> [M EXCEPT !.active = Append(@, id),
                               !.visited = @ \cup {Lower(trail_query)}],
              trails |-> Append(T, ResearchTrail(id, trail_query, relevance_score, budget)),
              trail |-> id]

create_trail_cap_exceeded_only(M, T, trail_query, relevance_score, budget) ==
    IF would_create_loop(M, trail_query)
    THEN [tm |-> M, trails |-> T, trail |-> 0]
    ELSE IF Lower(trail_query) \in M.visited
    THEN [tm |-> M, trails |-> T, trail |-> 0]
    ELSE IF Len(M.active) > M.max_concurrent_trails
    THEN [tm |-> M, trails |-> T, trail |-> 0]
    ELSE LET id == Len(T) + 1
         IN  [tm |-> [M EXCEPT !.active = Append(@, id),
                               !.visited = @ \cup {Lower(trail_query)}],
              trails |-> Append(T, ResearchTrail(id, trail_query, relevance_score, budget)),
              trail |-> id]

create_trail_visited_before_cap(M, T, trail_query, relevance_score, budget) ==
    IF would_create_loop(M, trail_query)
    THEN [tm |-> M, trails |-> T, trail |-> 0]
    ELSE IF Lower(trail_query) \in M.visited
    THEN [tm |-> M, trails |-> T, trail |-> 0]
    ELSE IF Len(M.active) >= M.max_concurrent_trails
    THEN [tm |-> [M EXCEPT !.visited = @ \cup {Lower(trail_query)}],
          trails |-> T, trail |-> 0]
    ELSE LET id == Len(T) + 1
         IN  [tm |-> [M EXCEPT !.active = Append(@, id),
                               !.visited = @ \cup {Lower(trail_query)}],
              trails |-> Append(T, ResearchTrail(id, trail_query, relevance_score, budget)),
              trail |-> id]

create_trail_not_marked_visited(M, T, trail_query, relevance_score, budget) ==
    IF would_create_loop(M, trail_query)
    THEN [tm |-> M, trails |-> T, trail |-> 0]
    ELSE IF Lower(trail_query) \in M.visited
    THEN [tm |-> M, trails |-> T, trail |-> 0]
    ELSE IF Len(M.active) >= M.max_concurrent_trails
    THEN [tm |-> M, trails |-> T, trail |-> 0]
    ELSE LET id == Len(T) + 1
         IN  [tm |-> [M EXCEPT !.active = Append(@, id)],
              trails |-> Append(T, ResearchTrail(id, trail_query, relevance_score, budget)),
              trail |-> id]

\* create_trail: three gates in order, then append PENDING and mark visited.
create_trail(M, T, trail_query, relevance_score, budget) ==
    IF would_create_loop(M, trail_query)
    THEN [tm |-> M, trails |-> T, trail |-> 0]
    ELSE IF Lower(trail_query) \in M.visited
    THEN [tm |-> M, trails |-> T, trail |-> 0]
    ELSE IF Len(M.active) >= M.max_concurrent_trails
    THEN [tm |-> M, trails |-> T, trail |-> 0]
    ELSE LET id == Len(T) + 1
         IN  [tm |-> [M EXCEPT !.active = Append(@, id),
                               !.visited = @ \cup {Lower(trail_query)}],
              trails |-> Append(T, ResearchTrail(id, trail_query, relevance_score, budget)),
              trail |-> id]

start_trail_without_status_check(M, T, trail_id) ==
    IF find_trail(M, trail_id) = 0
    THEN [tm |-> M, trails |-> T, ok |-> FALSE]
    ELSE [tm |-> [M EXCEPT !.breadcrumbs = @ \cup {Lower(T[trail_id].trail_query)}],
          trails |-> [T EXCEPT ![trail_id].status = "ACTIVE"],
          ok |-> TRUE]

\* start_trail: PENDING -> ACTIVE and a breadcrumb; False otherwise.
start_trail(M, T, trail_id) ==
    IF find_trail(M, trail_id) = 0
    THEN [tm |-> M, trails |-> T, ok |-> FALSE]
    ELSE IF T[trail_id].status # "PENDING"
    THEN [tm |-> M, trails |-> T, ok |-> FALSE]
    ELSE [tm |-> [M EXCEPT !.breadcrumbs = @ \cup {Lower(T[trail_id].trail_query)}],
          trails |-> [T EXCEPT ![trail_id].status = "ACTIVE"],
          ok |-> TRUE]

finish_trail_keeping_breadcrumb(M, T, trail_id, status) ==
    IF find_trail(M, trail_id) = 0
    THEN [tm |-> M, trails |-> T, ok |-> FALSE]
    ELSE [tm |-> [M EXCEPT !.active = SelectSeq(@, LAMBDA t : t # trail_id),
                           !.completed = Append(@, trail_id)],
          trails |-> [T EXCEPT ![trail_id].status = status],
          ok |-> TRUE]

\* complete_trail / abandon_trail: set the status, drop the breadcrumb, move
\* the trail from the active list to the completed list.
finish_trail(M, T, trail_id, status) ==
    IF find_trail(M, trail_id) = 0
    THEN [tm |-> M, trails |-> T, ok |-> FALSE]
    ELSE [tm |-> [M EXCEPT !.breadcrumbs = @ \ {Lower(T[trail_id].trail_query)},
                           !.active = SelectSeq(@, LAMBDA t : t # trail_id),
                           !.completed = Append(@, trail_id)],
          trails |-> [T EXCEPT ![trail_id].status = status],
          ok |-> TRUE]

complete_trail_left_undone(M, T, trail_id) == [tm |-> M, trails |-> T, ok |-> FALSE]

complete_trail(M, T, trail_id) == finish_trail(M, T, trail_id, "COMPLETED")

abandon_trail_marked_completed(M, T, trail_id) == finish_trail(M, T, trail_id, "COMPLETED")

abandon_trail(M, T, trail_id) == finish_trail(M, T, trail_id, "ABANDONED")

\* add_finding_to_trail
add_finding_to_trail(M, T, trail_id, finding) ==
    IF find_trail(M, trail_id) = 0 THEN T
    ELSE [T EXCEPT ![trail_id].findings = Append(@, finding)]

\* get_pending_trails: the PENDING trails of the active list, in list order.
get_pending_trails(M, T) == SelectSeq(M.active, LAMBDA t : T[t].status = "PENDING")

\* sorted(..., key=relevance_score, reverse=True) on trails: stable, highest
\* first.
RECURSIVE insert_trail_by_relevance(_, _, _)
insert_trail_by_relevance(T, sorted, t) ==
    IF sorted = <<>> THEN <<t>>
    ELSE IF T[Head(sorted)].relevance_score < T[t].relevance_score
    THEN <<t>> \o sorted
    ELSE <<Head(sorted)>> \o insert_trail_by_relevance(T, Tail(sorted), t)

RECURSIVE sort_trails_by_relevance(_, _, _)
sort_trails_by_relevance(T, sorted, rest) ==
    IF rest = <<>> THEN sorted
    ELSE sort_trails_by_relevance(T, insert_trail_by_relevance(T, sorted, Head(rest)),
                                  Tail(rest))

prioritize_trails_in_list_order(M, T) == get_pending_trails(M, T)

\* prioritize_trails: the pending trails, highest relevance first.
prioritize_trails(M, T) ==
    sort_trails_by_relevance(T, <<>>, get_pending_trails(M, T))

(***************************************************************************)
(* research_coordinator.py: ResearchCoordinator.conduct_research, one run  *)
(* of a freshly constructed coordinator.  The external collaborators are    *)
(* nondeterministic: needs_clarification answers either way, every          *)
(* Runner.run / agent invocation returns or raises, and the consumer of     *)
(* the generator keeps asking for the next item.                            *)
(***************************************************************************)
PlanningTokens == 500
SearchTokens == 2000
SynthesisTokens == 3000
TrailSearchTokens == 2000
MaxPlannedSearches == 5
MaxTrailsPerRun == 2
SuggestionRelevance == 70

PlanningOp == Operation("planning", PlanningTokens, 1, RZero)
SearchOp == Operation("search", SearchTokens, 1, RZero)
SynthesisOp == Operation("synthesis", SynthesisTokens, 1, RZero)
TrailSearchOp == Operation("trail_search", TrailSearchTokens, 1, RZero)

\* allocate_for_trail(percentage=0.15) in _follow_trails
TrailPercentage == <<3, 20>>

\* The budget of the run: create_default, create_development, or one the
\* caller passes (here the budget of the tests).
RunBudgets ==
    { ResearchBudget(50000, RInt(300), 50, 3, 1),
      ResearchBudget(10000, RInt(60), 10, 1, 1),
      ResearchBudget(RootMaxTokens, RInt(RootMaxTimeSeconds), RootMaxApiCalls, 2, 1) }

\* TrailConfig of ResearchConfig.create_default and create_development.
RunConfigs ==
    { [enable_autonomous_trails |-> TRUE, max_concurrent_trails |-> 3],
      [enable_autonomous_trails |-> FALSE, max_concurrent_trails |-> 1] }

\* What the planner may return: plans of 0..MaxPlanLength searches.
PlanLengths == 0..MaxPlanLength

\* Exceptions the collaborators raise (all subclasses of Exception).
AgentExceptions == {"AgentError", "AttributeError"}

Min(a, b) == IF a <= b THEN a ELSE b

RECURSIVE SeqsUpTo(_, _)
SeqsUpTo(S, n) ==
    IF n = 0 THEN {<<>>}
    ELSE LET shorter == SeqsUpTo(S, n - 1)
         IN  shorter \cup {Append(q, x) : q \in shorter, x \in S}

\* No TrailManager call has been made yet.
NoCall == [op |-> "init"]
EmptyLog == [calls |-> 0, created |-> 0, was_active |-> {}, cap_rejected |-> {}]

run_data == <<config, plan, ctx_findings, ctx_trails, suggestions, trails, tm,
              cur_trail, next_finding, tm_last, tm_log, aux_vars>>
budget_ghost == <<b_last, steps>>
tm_ghost == <<tm_last, tm_log>>

RunInit ==
    /\ SMInit
    /\ \E b \in RunBudgets : budgets = <<b>>
    /\ usages = <<ZeroUsage>>
    /\ links = <<NoLink>>
    /\ b_last = [op |-> "init", target |-> 0, arg |-> <<>>,
                 budgets |-> <<>>, usages |-> <<>>]
    /\ steps = 0
    /\ pc = "start"
    /\ yields = <<>>
    /\ escaped = "none"
    /\ config \in RunConfigs
    /\ plan = 0
    /\ ctx_findings = <<>>
    /\ ctx_trails = <<>>
    /\ suggestions = <<>>
    /\ trails = <<>>
    /\ tm = TrailManager(config.max_concurrent_trails)
    /\ cur_trail = 0
    /\ next_finding = 1
    /\ tm_last = NoCall
    /\ tm_log = EmptyLog
    /\ AuxIdle

except_StateTransitionError_only(e) == e = "StateTransitionError"

\* `except Exception as e` of conduct_research: every exception raised in
\* the try block is caught.
except_Exception(e) == e \in AgentExceptions \cup {"StateTransitionError"}

\* An exception e raised inside the try block: force_fail(str(e)) and the
\* failure message, or e leaves the generator.
Handle(e) ==
    IF except_Exception(e)
    THEN /\ SMApply("force_fail", e, force_fail(CurrentMachine, e))
         /\ yields' = Append(yields, "failed")
         /\ pc' = "done"
         /\ UNCHANGED escaped
    ELSE /\ escaped' = e
         /\ pc' = "done"
         /\ UNCHANGED <<sm_vars, yields>>

\* state_machine.transition(to_state), then the yield that follows it.
TransitionAndYield(to_state, item, next_pc) ==
    LET r == transition(CurrentMachine, to_state)
    IN  IF r.raised = "none"
        THEN /\ SMApply("transition", to_state, r)
             /\ yields' = Append(yields, item)
             /\ pc' = next_pc
             /\ UNCHANGED escaped
        ELSE Handle(r.raised)

\* Lines 155-159: context, state machine, first status (before the try).
RunStart ==
    /\ pc = "start"
    /\ yields' = Append(yields, "status")
    /\ pc' = "phase1"
    /\ UNCHANGED <<sm_vars, budget_vars, escaped, run_data>>

\* Phase 1: clarification, if the query is ambiguous.
Phase1Clarification ==
    /\ pc = "phase1"
    /\ \E needs_clarification \in BOOLEAN :
          IF needs_clarification
          THEN TransitionAndYield("CLARIFYING", "clarifying", "phase2")
          ELSE pc' = "phase2" /\ UNCHANGED <<sm_vars, yields, escaped>>
    /\ UNCHANGED <<budget_vars, run_data>>

\* Phase 2: transition to PLANNING.
Phase2Planning ==
    /\ pc = "phase2"
    /\ TransitionAndYield("PLANNING", "status", "planning")
    /\ UNCHANGED <<budget_vars, run_data>>

\* _plan_research: the planner runs, then 500 tokens are consumed
\* unconditionally.  plan = -1: a final_output without `searches`.
PlanResearch ==
    /\ pc = "planning"
    /\ \/ /\ \E n \in PlanLengths \cup {-1} :
                plan' = IF n = -1 THEN -1 ELSE Min(n, MaxPlannedSearches)
          /\ usages' = consume(budgets, usages, 1, PlanningOp)
          /\ pc' = "phase3"
          /\ UNCHANGED <<sm_vars, yields, escaped>>
       \/ /\ \E e \in AgentExceptions : Handle(e)
          /\ UNCHANGED <<plan, usages>>
    /\ UNCHANGED <<budgets, links, budget_ghost, tm_ghost, config, ctx_findings, ctx_trails,
                   suggestions, trails, tm, cur_trail, next_finding,
                   aux_vars>>

\* Phase 3: transition to SEARCHING.
Phase3Searching ==
    /\ pc = "phase3"
    /\ TransitionAndYield("SEARCHING", "status", "searching")
    /\ UNCHANGED <<budget_vars, run_data>>

\* _execute_searches: one iteration of the loop over search_plan.searches[:5],
\* or its end.
ExecuteSearch ==
    /\ pc = "searching"
    /\ IF plan = -1
       THEN /\ Handle("AttributeError")
            /\ UNCHANGED <<plan, usages, ctx_findings, next_finding>>
       ELSE IF plan = 0 \/ ~can_afford(View(budgets, usages, 1), SearchOp)
       THEN /\ pc' = "phase4"
            /\ plan' = 0
            /\ UNCHANGED <<sm_vars, yields, escaped, usages, ctx_findings, next_finding>>
       ELSE /\ plan' = plan - 1
            /\ UNCHANGED <<sm_vars, yields, escaped, pc>>
            /\ \/ /\ ctx_findings' = Append(ctx_findings, next_finding)
                  /\ next_finding' = next_finding + 1
                  /\ usages' = consume(budgets, usages, 1, SearchOp)
               \/ UNCHANGED <<ctx_findings, next_finding, usages>>
    /\ UNCHANGED <<budgets, links, budget_ghost, tm_ghost, config, ctx_trails, suggestions,
                   trails, tm, cur_trail,
                   aux_vars>>

\* Phase 4: transition to EVALUATING.
Phase4Evaluating ==
    /\ pc = "phase4"
    /\ TransitionAndYield("EVALUATING", "status", "evaluating")
    /\ UNCHANGED <<budget_vars, run_data>>

\* evaluation_engine.evaluate: gaps are identified iff fewer than 5 findings
\* (GapDetector.detect_gaps with the QualityAssessor's scores).
gaps_identified(findings) == Len(findings) < 5

\* Lines 188-203: evaluation, then Phase 5 if trails are enabled, affordable
\* and gaps were identified.
Evaluate ==
    /\ pc = "evaluating"
    /\ IF /\ config.enable_autonomous_trails
          /\ can_afford_trail(View(budgets, usages, 1))
          /\ gaps_identified(ctx_findings)
       THEN TransitionAndYield("TRAIL_FOLLOWING", "status", "discover")
       ELSE pc' = "phase6" /\ UNCHANGED <<sm_vars, yields, escaped>>
    /\ UNCHANGED <<budget_vars, run_data>>

\* _follow_trails, lines 284-288: discover_trails(..., max_trails=2); nothing
\* without findings, else up to two suggestions of relevance 0.7.
DiscoverTrails ==
    /\ pc = "discover"
    /\ IF ctx_findings = <<>>
       THEN suggestions' = <<>>
       ELSE suggestions' \in SeqsUpTo(Queries, MaxTrailsPerRun)
    /\ pc' = "trails"
    /\ UNCHANGED <<sm_vars, budget_vars, tm_ghost, yields, escaped, config, plan,
                   ctx_findings, ctx_trails, trails, tm, cur_trail, next_finding,
                   aux_vars>>

\* _follow_trails, lines 291-306, and execute_trail up to its search
\* invocation: one iteration of the loop over the suggestions (allocate,
\* increment, create, start, affordability check), or the end of the loop.
TrailBegin ==
    /\ pc = "trails"
    /\ IF suggestions = <<>> \/ ~can_afford_trail(View(budgets, usages, 1))
       THEN /\ pc' = "phase6"
            /\ suggestions' = <<>>
            /\ UNCHANGED <<budgets, usages, links, ctx_trails, trails, tm, cur_trail>>
       ELSE \E alloc \in {allocate_for_trail(budgets, usages, 1, TrailPercentage)} :
            \E deeper \in {increment_trail_depth(alloc.budgets, 1)} :
            \E ct \in {create_trail(tm, trails, Head(suggestions), SuggestionRelevance,
                                    Len(alloc.budgets))} :
            \E st \in {start_trail(ct.tm, ct.trails, ct.trail)} :
                /\ usages' = alloc.usages
                /\ links' = Append(links, [parent |-> 1,
                                           parent_view |-> View(budgets, usages, 1),
                                           percentage |-> TrailPercentage])
                /\ IF ct.trail = 0
                   THEN \* no trail: only the depth goes up and down again
                        /\ budgets' = decrement_trail_depth(deeper, 1)
                        /\ suggestions' = Tail(suggestions)
                        /\ pc' = "trails"
                        /\ UNCHANGED <<ctx_trails, trails, tm, cur_trail>>
                   ELSE IF ~st.ok
                   THEN \* execute_trail returns the trail as it is
                        /\ budgets' = decrement_trail_depth(deeper, 1)
                        /\ ctx_trails' = Append(ctx_trails, ct.trail)
                        /\ trails' = st.trails
                        /\ tm' = st.tm
                        /\ suggestions' = Tail(suggestions)
                        /\ pc' = "trails"
                        /\ UNCHANGED cur_trail
                   ELSE IF ~can_afford(View(alloc.budgets, alloc.usages, Len(alloc.budgets)),
                                       TrailSearchOp)
                   THEN \* abandoned: "budget exhausted"
                        /\ budgets' = decrement_trail_depth(deeper, 1)
                        /\ ctx_trails' = Append(ctx_trails, ct.trail)
                        /\ \E ab \in {abandon_trail(st.tm, st.trails, ct.trail)} :
                              trails' = ab.trails /\ tm' = ab.tm
                        /\ suggestions' = Tail(suggestions)
                        /\ pc' = "trails"
                        /\ UNCHANGED cur_trail
                   ELSE \* the search invocation is awaited
                        /\ budgets' = deeper
                        /\ ctx_trails' = Append(ctx_trails, ct.trail)
                        /\ trails' = st.trails
                        /\ tm' = st.tm
                        /\ cur_trail' = ct.trail
                        /\ pc' = "trail_await"
                        /\ UNCHANGED suggestions
    /\ UNCHANGED <<sm_vars, budget_ghost, tm_ghost, yields, escaped, config, plan, ctx_findings,
                   next_finding,
                   aux_vars>>

RECURSIVE Concat(_, _)
Concat(a, b) == IF b = <<>> THEN a ELSE Concat(Append(a, Head(b)), Tail(b))

\* execute_trail after the search invocation, and lines 308-312: the finding
\* (appended to the trail and registered with the manager), the consumption,
\* complete_trail; a failed invocation is caught by _execute_trail_search and
\* yields no finding.  Then the trail's findings go to the context and the
\* depth goes down.
TrailFinish ==
    /\ pc = "trail_await"
    /\ \E invocation_ok \in BOOLEAN :
          LET appended == [trails EXCEPT ![cur_trail].findings = Append(@, next_finding)]
              registered == add_finding_to_trail(tm, appended, cur_trail, next_finding)
              found == IF invocation_ok THEN registered ELSE trails
              done == complete_trail(tm, found, cur_trail)
          IN  /\ usages' = IF invocation_ok
                           THEN consume(budgets, usages, trails[cur_trail].budget_allocated,
                                        TrailSearchOp)
                           ELSE usages
              /\ next_finding' = IF invocation_ok THEN next_finding + 1 ELSE next_finding
              /\ trails' = done.trails
              /\ tm' = done.tm
              /\ ctx_findings' = Concat(ctx_findings, done.trails[cur_trail].findings)
    /\ budgets' = decrement_trail_depth(budgets, 1)
    /\ suggestions' = Tail(suggestions)
    /\ cur_trail' = 0
    /\ pc' = "trails"
    /\ UNCHANGED <<sm_vars, links, budget_ghost, tm_ghost, yields, escaped, config, plan, ctx_trails,
                   aux_vars>>

\* Phase 6: transition to SYNTHESIZING.
Phase6Synthesizing ==
    /\ pc = "phase6"
    /\ TransitionAndYield("SYNTHESIZING", "status", "synthesizing")
    /\ UNCHANGED <<budget_vars, run_data>>

\* _synthesize_report: the writer runs, then 3000 tokens are consumed
\* unconditionally.
SynthesizeReport ==
    /\ pc = "synthesizing"
    /\ \/ /\ usages' = consume(budgets, usages, 1, SynthesisOp)
          /\ pc' = "phase7"
          /\ UNCHANGED <<sm_vars, yields, escaped>>
       \/ /\ \E e \in AgentExceptions : Handle(e)
          /\ UNCHANGED usages
    /\ UNCHANGED <<budgets, links, budget_ghost, run_data>>

\* Phase 7: transition to COMPLETED, the final status and the report.
Phase7Complete ==
    /\ pc = "phase7"
    /\ LET r == transition(CurrentMachine, "COMPLETED")
       IN  IF r.raised = "none"
           THEN /\ SMApply("transition", "COMPLETED", r)
                /\ yields' = yields \o <<"final_status", "report">>
                /\ pc' = "done"
                /\ UNCHANGED escaped
           ELSE Handle(r.raised)
    /\ UNCHANGED <<budget_vars, run_data>>

(***************************************************************************)
(* The specifications.                                                     *)
(***************************************************************************)
SMIdle ==
    /\ ctx_state = "INITIALIZING"
    /\ state_history = <<>>
    /\ ctx_metadata = NoReason
    /\ sm_last = [op |-> "init"]

BudgetIdle ==
    /\ budgets = <<>>
    /\ usages = <<>>
    /\ links = <<>>
    /\ b_last = [op |-> "init"]
    /\ steps = 0

\* No conduct_research run, no trail manager in use.
RunCoreIdle ==
    /\ pc = "idle"
    /\ yields = <<>>
    /\ escaped = "none"
    /\ config = [enable_autonomous_trails |-> FALSE]
    /\ plan = 0
    /\ ctx_findings = <<>>
    /\ ctx_trails = <<>>
    /\ suggestions = <<>>
    /\ trails = <<>>
    /\ tm = TrailManager(0)
    /\ cur_trail = 0
    /\ next_finding = 1
    /\ tm_last = NoCall
    /\ tm_log = EmptyLog

RunIdle == RunCoreIdle /\ AuxIdle

InitSM == SMInit /\ BudgetIdle /\ RunIdle

NextSM ==
    \/ \E to_state \in ResearchState : Transition(to_state)
    \/ \E reason \in Reasons : ForceFail(reason)

SpecSM == InitSM /\ [][NextSM]_vars

InitBudget == BudgetInit /\ SMIdle /\ RunIdle

NextBudget ==
    \/ \E i \in 1..Len(budgets), op \in OpSet :
          Consume(i, op) /\ UNCHANGED <<sm_vars, run_vars>>
    \/ \E i \in 1..Len(budgets) :
          IncrementTrailDepth(i) /\ UNCHANGED <<sm_vars, run_vars>>
    \/ \E i \in 1..Len(budgets) :
          DecrementTrailDepth(i) /\ UNCHANGED <<sm_vars, run_vars>>
    \/ \E i \in 1..Len(budgets), p \in Percentages :
          AllocateForTrail(i, p) /\ UNCHANGED <<sm_vars, run_vars>>

SpecBudget == InitBudget /\ [][NextBudget]_vars

(***************************************************************************)
(* trail_manager.py: a TrailManager driven by arbitrary calls.              *)
(***************************************************************************)
\* Relevance scores passed to create_trail, in hundredths.
Relevances == {30, 90}

\* max_concurrent_trails of the managers: the development configuration and
\* the manager of the statistics test.
ManagerCapacities == {1, 2}

RECURSIVE total_findings(_, _)
total_findings(T, ids) ==
    IF ids = <<>> THEN 0
    ELSE Len(T[Head(ids)].findings) + total_findings(T, Tail(ids))

\* get_statistics: counts over the two lists.
get_statistics(M, T) ==
    LET all_trails == M.active \o M.completed
    IN  [total_trails |-> Len(all_trails),
         active_trails |-> Len(SelectSeq(M.active, LAMBDA t : T[t].status = "ACTIVE")),
         pending_trails |-> Len(SelectSeq(M.active, LAMBDA t : T[t].status = "PENDING")),
         completed_trails |-> Len(M.completed),
         total_findings |-> total_findings(T, all_trails),
         visited_queries |-> Cardinality(M.visited),
         active_breadcrumbs |-> Cardinality(M.breadcrumbs)]

TMInit ==
    /\ SMIdle
    /\ budgets = <<ResearchBudget(RootMaxTokens, RInt(RootMaxTimeSeconds),
                                  RootMaxApiCalls, 1, 1)>>
    /\ usages = <<ZeroUsage>>
    /\ links = <<NoLink>>
    /\ b_last = [op |-> "init"]
    /\ steps = 0
    /\ pc = "idle"
    /\ yields = <<>>
    /\ escaped = "none"
    /\ config = [enable_autonomous_trails |-> FALSE]
    /\ plan = 0
    /\ ctx_findings = <<>>
    /\ ctx_trails = <<>>
    /\ suggestions = <<>>
    /\ trails = <<>>
    /\ \E max_concurrent \in ManagerCapacities : tm = TrailManager(max_concurrent)
    /\ cur_trail = 0
    /\ next_finding = 1
    /\ tm_last = NoCall
    /\ tm_log = EmptyLog
    /\ AuxIdle

\* One call on the manager: the new manager and trail objects, and the record
\* of the call.
TMCall(op, arg, result, M, T) ==
    /\ tm_log.calls < MaxManagerCalls
    /\ tm' = M
    /\ trails' = T
    /\ tm_last' = [op |-> op, arg |-> arg, result |-> result,
                   pre_tm |-> tm, pre_trails |-> trails]
    /\ tm_log' = [calls |-> tm_log.calls + 1,
                  created |-> IF op = "create_trail" /\ result # 0
                              THEN tm_log.created + 1 ELSE tm_log.created,
                  was_active |-> IF op = "start_trail" /\ result = TRUE
                                 THEN tm_log.was_active \cup {arg}
                                 ELSE tm_log.was_active,
                  cap_rejected |-> IF /\ op = "create_trail"
                                      /\ result = 0
                                      /\ Lower(arg) \notin tm.visited
                                      /\ Lower(arg) \notin tm.breadcrumbs
                                   THEN tm_log.cap_rejected \cup {Lower(arg)}
                                   ELSE tm_log.cap_rejected]
    /\ UNCHANGED <<sm_vars, budget_vars, pc, yields, escaped, config, plan,
                   ctx_findings, ctx_trails, suggestions, cur_trail, next_finding,
                   aux_vars>>

CreateTrail(trail_query, relevance_score) ==
    \E r \in {create_trail(tm, trails, trail_query, relevance_score, 1)} :
        TMCall("create_trail", trail_query, r.trail, r.tm, r.trails)

StartTrail(trail_id) ==
    \E r \in {start_trail(tm, trails, trail_id)} :
        TMCall("start_trail", trail_id, r.ok, r.tm, r.trails)

CompleteTrail(trail_id) ==
    \E r \in {complete_trail(tm, trails, trail_id)} :
        TMCall("complete_trail", trail_id, r.ok, r.tm, r.trails)

AbandonTrail(trail_id) ==
    \E r \in {abandon_trail(tm, trails, trail_id)} :
        TMCall("abandon_trail", trail_id, r.ok, r.tm, r.trails)

GetStatistics ==
    TMCall("get_statistics", 0, get_statistics(tm, trails), tm, trails)

PrioritizeTrails ==
    TMCall("prioritize_trails", 0, prioritize_trails(tm, trails), tm, trails)

\* Trail ids a caller may pass: those of the created trails and an unknown one.
CallerTrailIds == 1..(Len(trails) + 1)

InitTM == TMInit

NextTM ==
    \/ \E q \in Queries, relevance \in Relevances : CreateTrail(q, relevance)
    \/ \E id \in CallerTrailIds : StartTrail(id)
    \/ \E id \in CallerTrailIds : CompleteTrail(id)
    \/ \E id \in CallerTrailIds : AbandonTrail(id)
    \/ GetStatistics
    \/ PrioritizeTrails

SpecTM == InitTM /\ [][NextTM]_vars

InitRun == RunInit

NextRun ==
    \/ RunStart
    \/ Phase1Clarification
    \/ Phase2Planning
    \/ PlanResearch
    \/ Phase3Searching
    \/ ExecuteSearch
    \/ Phase4Evaluating
    \/ Evaluate
    \/ DiscoverTrails
    \/ TrailBegin
    \/ TrailFinish
    \/ Phase6Synthesizing
    \/ SynthesizeReport
    \/ Phase7Complete

\* The event loop resumes the generator and every awaited call returns or
\* raises: a run that can take a step eventually takes one.
SpecRun == InitRun /\ [][NextRun]_vars /\ WF_vars(NextRun)

(***************************************************************************)
(* C1: transition(T) with T outside the current state's edge set raises    *)
(* StateTransitionError and leaves the context's state, its metadata and   *)
(* the state-history log exactly as they were before the call.             *)
(***************************************************************************)
C1_InvalidTransitionRaises ==
    (sm_last.op = "transition" /\ sm_last.arg \notin TRANSITIONS[sm_last.pre.state])
        => /\ sm_last.raised = "StateTransitionError"
           /\ ctx_state = sm_last.pre.state
           /\ state_history = sm_last.pre.history
           /\ ctx_metadata = sm_last.pre.metadata

C1_Witness ==
    /\ sm_last.op = "transition"
    /\ sm_last.pre.state = "EVALUATING"
    /\ sm_last.arg = "COMPLETED"
    /\ sm_last.raised = "StateTransitionError"

(***************************************************************************)
(* C2: along successful transition() calls from INITIALIZING a terminal    *)
(* state (is_terminal_state true) appears only as the last state of the    *)
(* path; is_terminal_state is true exactly for COMPLETED and FAILED, which *)
(* are exactly the states with an empty edge set; a transition() call made *)
(* in a terminal state raises.                                             *)
(***************************************************************************)
C2_TerminalOnlyAtEnd ==
    /\ is_terminal_state(ctx_state) <=> ctx_state \in {"COMPLETED", "FAILED"}
    /\ \A s \in ResearchState : (TRANSITIONS[s] = {}) <=> s \in {"COMPLETED", "FAILED"}
    /\ ~sm_last.forced =>
          \A i \in 1..(Len(state_history) - 1) : ~is_terminal_state(state_history[i])
    /\ (sm_last.op = "transition" /\ is_terminal_state(sm_last.pre.state))
          => sm_last.raised = "StateTransitionError" /\ ctx_state = sm_last.pre.state

C2_Witness ==
    /\ ~sm_last.forced
    /\ state_history = <<"INITIALIZING", "PLANNING", "SEARCHING", "EVALUATING",
                         "SYNTHESIZING", "COMPLETED">>
    /\ is_terminal_state(ctx_state)

(***************************************************************************)
(* C3: force_fail(reason) never raises, whatever the state it is called    *)
(* in (COMPLETED and FAILED included): the context ends in FAILED, the     *)
(* reason is stored under 'failure_reason' and FAILED is appended to the   *)
(* history, without consulting the transition table.                       *)
(***************************************************************************)
C3_ForceFailAlwaysSucceeds ==
    sm_last.op = "force_fail"
        => /\ sm_last.raised = "none"
           /\ ctx_state = "FAILED"
           /\ ctx_metadata = sm_last.arg
           /\ state_history = Append(sm_last.pre.history, "FAILED")

C3_Witness ==
    /\ sm_last.op = "force_fail"
    /\ sm_last.pre.state = "COMPLETED"
    /\ ctx_state = "FAILED"
    /\ ctx_metadata \in Reasons

(***************************************************************************)
(* C4: every conduct_research run terminates cleanly whatever external     *)
(* agent calls fail: the run eventually ends, for good, with the workflow  *)
(* state COMPLETED and the report as the last item yielded, or with the    *)
(* state FAILED, the error text recorded and the 'Research failed' message *)
(* as the last item yielded; no exception leaves the run entry point.      *)
(***************************************************************************)
RunEndedCleanly ==
    /\ pc = "done"
    /\ escaped = "none"
    /\ yields # <<>>
    /\ \/ /\ ctx_state = "COMPLETED"
          /\ yields[Len(yields)] = "report"
       \/ /\ ctx_state = "FAILED"
          /\ yields[Len(yields)] = "failed"
          /\ ctx_metadata # NoReason

C4_RunTerminatesCleanly == <>[]RunEndedCleanly

\* A run that fails late: the writer raises after trails were followed.
C4_Witness ==
    /\ pc = "done"
    /\ ctx_state = "FAILED"
    /\ sm_last.op = "force_fail"
    /\ sm_last.pre.state = "SYNTHESIZING"
    /\ ctx_metadata \in AgentExceptions
    /\ yields[Len(yields)] = "failed"
    /\ ctx_trails # <<>>

(***************************************************************************)
(* C11: during a conduct_research run the orchestrator budget's            *)
(* trail_depth stays within [0, max_trail_depth]; the depth is raised only *)
(* after can_afford_trail was true on that budget; every increment is      *)
(* matched by one decrement, whether or not the trail was created: the     *)
(* depth is one above its starting value exactly while a trail's search is *)
(* awaited and back at the starting value otherwise, in particular when    *)
(* trail following has ended.                                              *)
(***************************************************************************)
OrchestratorDepthBalanced ==
    /\ budgets[1].trail_depth >= 0
    /\ budgets[1].trail_depth <= budgets[1].max_trail_depth
    /\ pc = "trail_await" => budgets[1].trail_depth = 1
    /\ pc # "trail_await" => budgets[1].trail_depth = 0

IncrementAfterCanAffordTrail ==
    (\/ budgets'[1].trail_depth > budgets[1].trail_depth
     \/ Len(links') > Len(links))
        => can_afford_trail(View(budgets, usages, 1))

C11_RunDepthWithinBounds ==
    []OrchestratorDepthBalanced /\ [][IncrementAfterCanAffordTrail]_vars

\* Trail following has ended after one trail was followed and one suggestion
\* was rejected by create_trail.
C11_Witness ==
    /\ pc = "phase6"
    /\ ctx_trails # <<>>
    /\ Len(links) - 1 > Len(ctx_trails)
    /\ budgets[1].trail_depth = 0
    /\ \E t \in 1..Len(trails) : trails[t].status = "COMPLETED"

(***************************************************************************)
(* Views used by the budget claims.                                        *)
(***************************************************************************)
PreView(i) == View(b_last.budgets, b_last.usages, i)
NowView(i) == View(budgets, usages, i)
ChildrenOf(i) == {j \in 1..Len(budgets) : links[j].parent = i}

\* Sums of the caps of a set of budgets.
RECURSIVE SumMaxTokens(_)
SumMaxTokens(S) ==
    IF S = {} THEN 0
    ELSE LET j == CHOOSE x \in S : TRUE
         IN  budgets[j].max_tokens + SumMaxTokens(S \ {j})

RECURSIVE SumMaxApiCalls(_)
SumMaxApiCalls(S) ==
    IF S = {} THEN 0
    ELSE LET j == CHOOSE x \in S : TRUE
         IN  budgets[j].max_api_calls + SumMaxApiCalls(S \ {j})

RECURSIVE SumMaxTimeSeconds(_)
SumMaxTimeSeconds(S) ==
    IF S = {} THEN RZero
    ELSE LET j == CHOOSE x \in S : TRUE
         IN  RAdd(budgets[j].max_time_seconds, SumMaxTimeSeconds(S \ {j}))

(***************************************************************************)
(* C5: if can_afford(op) is true immediately before consume(op), then      *)
(* is_exhausted() is false immediately after, unless op's cost equals the  *)
(* budget's remaining capacity in some dimension (tokens, API calls, time).*)
(***************************************************************************)
C5_AffordableConsumeNotExhausted ==
    (b_last.op = "consume" /\ can_afford(PreView(b_last.target), b_last.arg))
        => LET op == b_last.arg
               rem == remaining(PreView(b_last.target))
           IN  is_exhausted(NowView(b_last.target))
                   => \/ op.estimated_tokens = rem.tokens_used
                      \/ op.estimated_api_calls = rem.api_calls
                      \/ op.estimated_time_seconds = rem.time_seconds

C5_Witness ==
    /\ b_last.op = "consume"
    /\ can_afford(PreView(b_last.target), b_last.arg)
    /\ ~is_exhausted(PreView(b_last.target))
    /\ is_exhausted(NowView(b_last.target))
    /\ b_last.arg.estimated_api_calls = remaining(PreView(b_last.target)).api_calls
    /\ b_last.arg.estimated_tokens < remaining(PreView(b_last.target)).tokens_used

(***************************************************************************)
(* C12: for a budget in any state, is_exhausted() is true exactly when the *)
(* usage is at or over the cap in at least one of the three dimensions,    *)
(* which is exactly when remaining() is 0 in at least one dimension;       *)
(* remaining() is never negative, also after over-consumption; consuming   *)
(* exactly the token cap gives is_exhausted() and remaining tokens 0.      *)
(***************************************************************************)
AtOrOverSomeCap(b) ==
    \E d \in {"tokens", "calls", "time"} :
        CASE d = "tokens" -> b.current_usage.tokens_used >= b.max_tokens
          [] d = "calls"  -> b.current_usage.api_calls >= b.max_api_calls
          [] d = "time"   -> ~RLt(b.current_usage.time_seconds, b.max_time_seconds)

C12_ExhaustedIffRemainingZero ==
    \A i \in 1..Len(budgets) :
        LET b == NowView(i)
            rem == remaining(b)
        IN  /\ is_exhausted(b) <=> AtOrOverSomeCap(b)
            /\ is_exhausted(b) <=> \/ rem.tokens_used = 0
                                   \/ rem.api_calls = 0
                                   \/ rem.time_seconds = RZero
            /\ rem.tokens_used >= 0
            /\ rem.api_calls >= 0
            /\ RLe(RZero, rem.time_seconds)
            /\ b.current_usage.tokens_used = b.max_tokens
                   => is_exhausted(b) /\ rem.tokens_used = 0

\* A budget of 1000 tokens has consumed exactly 1000 tokens in one operation:
\* exhausted by tokens alone, with API calls and time left.
C12_Witness ==
    /\ b_last.op = "consume"
    /\ b_last.arg.estimated_tokens = RootMaxTokens
    /\ LET b == NowView(b_last.target)
       IN  /\ b.max_tokens = RootMaxTokens
           /\ b.current_usage.tokens_used = RootMaxTokens
           /\ is_exhausted(b)
           /\ remaining(b).tokens_used = 0
           /\ remaining(b).api_calls > 0
           /\ remaining(b).time_seconds # RZero

(***************************************************************************)
(* C6: whatever the parent's usage (over-consumed included) and whatever   *)
(* the percentage p in (0, 1], the child of allocate_for_trail(p) has      *)
(* max_tokens, max_api_calls and max_time_seconds at most the parent's     *)
(* remaining() in that dimension at the time of the call; tokens and calls *)
(* are the floor of remaining times p (900 remaining at 0.2 gives 180).    *)
(***************************************************************************)
C6_ChildCapsWithinRemaining ==
    \A j \in 1..Len(budgets) :
        links[j].parent # 0 =>
            LET rem == remaining(links[j].parent_view)
                p == links[j].percentage
                child == budgets[j]
            IN  /\ 0 <= child.max_tokens /\ child.max_tokens <= rem.tokens_used
                /\ 0 <= child.max_api_calls /\ child.max_api_calls <= rem.api_calls
                /\ RLe(RZero, child.max_time_seconds)
                /\ RLe(child.max_time_seconds, rem.time_seconds)
                /\ child.max_tokens * p[2] <= rem.tokens_used * p[1]
                /\ rem.tokens_used * p[1] < (child.max_tokens + 1) * p[2]
                /\ child.max_api_calls * p[2] <= rem.api_calls * p[1]
                /\ rem.api_calls * p[1] < (child.max_api_calls + 1) * p[2]
                /\ (rem.tokens_used = 900 /\ p = <<1, 5>>) => child.max_tokens = 180

C6_Witness ==
    /\ b_last.op = "allocate_for_trail"
    /\ LET parent == PreView(b_last.target)
       IN  /\ parent.current_usage.tokens_used > parent.max_tokens
           /\ parent.current_usage.api_calls < parent.max_api_calls
    /\ budgets[Len(budgets)].max_tokens = 0
    /\ budgets[Len(budgets)].max_api_calls > 0

(***************************************************************************)
(* C7: the children allocated from one parent never exceed, in aggregate,  *)
(* what the parent has left: the sum of the children's caps in each        *)
(* dimension is at most the parent's remaining capacity in that dimension. *)
(***************************************************************************)
C7_SiblingsWithinRemaining ==
    \A i \in 1..Len(budgets) :
        LET rem == remaining(NowView(i))
        IN  /\ SumMaxTokens(ChildrenOf(i)) <= rem.tokens_used
            /\ SumMaxApiCalls(ChildrenOf(i)) <= rem.api_calls
            /\ RLe(SumMaxTimeSeconds(ChildrenOf(i)), rem.time_seconds)

(***************************************************************************)
(* C8: along a chain of budgets, each allocated by allocate_for_trail from *)
(* a parent that passed can_afford_trail (before or after the parent's     *)
(* depth was incremented for it), max_trail_depth shrinks: the child's     *)
(* max_trail_depth is strictly below its parent's, so nesting is bounded   *)
(* by the root's max_trail_depth.                                          *)
(***************************************************************************)
ChainLink(j) ==
    /\ links[j].parent # 0
    /\ LET pv == links[j].parent_view
       IN  \/ can_afford_trail(pv)
           \/ pv.trail_depth >= 1 /\ pv.trail_depth <= pv.max_trail_depth

C8_DepthShrinksAlongChain ==
    \A j \in 1..Len(budgets) :
        ChainLink(j) => budgets[j].max_trail_depth < links[j].parent_view.max_trail_depth

(***************************************************************************)
(* C9: the child of allocate_for_trail is an independent instance: the     *)
(* call leaves every field of every existing budget unchanged, the child   *)
(* starts with zero usage and trail_depth 0, no two budgets share a usage  *)
(* object, and a consume or depth change on one budget alters no other     *)
(* budget (child to parent and parent to child).                           *)
(***************************************************************************)
C9_ChildIndependent ==
    /\ \A i, j \in 1..Len(budgets) :
          i # j => budgets[i].current_usage # budgets[j].current_usage
    /\ b_last.op = "allocate_for_trail" =>
          /\ Len(budgets) = Len(b_last.budgets) + 1
          /\ \A i \in 1..Len(b_last.budgets) : NowView(i) = PreView(i)
          /\ NowView(Len(budgets)).current_usage = ZeroUsage
          /\ budgets[Len(budgets)].trail_depth = 0
    /\ b_last.op \in {"consume", "increment_trail_depth", "decrement_trail_depth"} =>
          /\ Len(budgets) = Len(b_last.budgets)
          /\ \A i \in 1..Len(budgets) : i # b_last.target => NowView(i) = PreView(i)

C9_Witness ==
    /\ b_last.op = "consume"
    /\ links[b_last.target].parent # 0
    /\ NowView(b_last.target).current_usage.tokens_used > 0
    /\ LET parent == links[b_last.target].parent
       IN  /\ NowView(parent).current_usage.tokens_used > 0
           /\ NowView(parent).current_usage # NowView(b_last.target).current_usage
           /\ NowView(parent) = PreView(parent)

(***************************************************************************)
(* C10: under any interleaving of increment_trail_depth and                *)
(* decrement_trail_depth, trail_depth is never below 0, and a decrement at *)
(* depth 0 changes nothing.                                                *)
(***************************************************************************)
C10_DepthNeverNegative ==
    /\ \A i \in 1..Len(budgets) : budgets[i].trail_depth >= 0
    /\ (b_last.op = "decrement_trail_depth" /\ b_last.budgets[b_last.target].trail_depth = 0)
          => budgets = b_last.budgets /\ usages = b_last.usages

C10_Witness ==
    /\ b_last.op = "decrement_trail_depth"
    /\ b_last.budgets[b_last.target].trail_depth = 0
    /\ budgets[b_last.target].trail_depth = 0
    /\ steps >= 3

(***************************************************************************)
(* C13: within one TrailManager, create_trail succeeds at most once per    *)
(* case-insensitive query: no two trails have queries equal up to letter   *)
(* case, and a create_trail whose query equals, up to case, that of an     *)
(* existing trail (PENDING, ACTIVE, COMPLETED or ABANDONED) returns        *)
(* nothing and leaves the size of the active list unchanged.               *)
(***************************************************************************)
C13_OneTrailPerQuery ==
    /\ \A i, j \in 1..Len(trails) :
           Lower(trails[i].trail_query) = Lower(trails[j].trail_query) => i = j
    /\ (/\ tm_last.op = "create_trail"
        /\ \E t \in 1..Len(tm_last.pre_trails) :
               Lower(tm_last.pre_trails[t].trail_query) = Lower(tm_last.arg))
           => /\ tm_last.result = 0
              /\ Len(tm.active) = Len(tm_last.pre_tm.active)
              /\ trails = tm_last.pre_trails

\* The query, in another letter case, of a trail that was completed is
\* refused although the manager has room.
C13_Witness ==
    /\ tm_last.op = "create_trail"
    /\ tm_last.result = 0
    /\ Len(tm_last.pre_tm.active) < tm.max_concurrent_trails
    /\ \E t \in 1..Len(trails) :
           /\ trails[t].trail_query # tm_last.arg
           /\ Lower(trails[t].trail_query) = Lower(tm_last.arg)
           /\ trails[t].status = "COMPLETED"

(***************************************************************************)
(* C14: in every reachable TrailManager state the active list holds only   *)
(* PENDING and ACTIVE trails and at most max_concurrent_trails of them;    *)
(* when it already holds that many, create_trail returns nothing whatever  *)
(* the relevance score; the list gets shorter only by complete_trail or    *)
(* abandon_trail.                                                          *)
(***************************************************************************)
C14_ActiveListWithinCap ==
    /\ Len(tm.active) <= tm.max_concurrent_trails
    /\ \A k \in 1..Len(tm.active) : trails[tm.active[k]].status \in {"PENDING", "ACTIVE"}
    /\ (/\ tm_last.op = "create_trail"
        /\ Len(tm_last.pre_tm.active) >= tm_last.pre_tm.max_concurrent_trails)
           => tm_last.result = 0 /\ tm.active = tm_last.pre_tm.active
    /\ (tm_last.op # "init" /\ Len(tm.active) < Len(tm_last.pre_tm.active))
           => tm_last.op \in {"complete_trail", "abandon_trail"}

\* A new query is refused by a full manager.
C14_Witness ==
    /\ tm_last.op = "create_trail"
    /\ tm_last.result = 0
    /\ Len(tm_last.pre_tm.active) = tm.max_concurrent_trails
    /\ tm.max_concurrent_trails = 2
    /\ Lower(tm_last.arg) \notin tm_last.pre_tm.visited

(***************************************************************************)
(* C15: trail creation is all-or-nothing: a create_trail rejected by any   *)
(* of its gates (breadcrumb, visited query, concurrency cap) returns       *)
(* nothing and leaves the active list, the completed list, the visited set *)
(* and the breadcrumb set (and every trail) unchanged; a query rejected    *)
(* only by the cap is not marked visited, so that it is created once the   *)
(* manager has room again.                                                 *)
(***************************************************************************)
C15_RejectedCreateChangesNothing ==
    /\ (tm_last.op = "create_trail" /\ tm_last.result = 0)
           => tm = tm_last.pre_tm /\ trails = tm_last.pre_trails
    /\ (/\ tm_last.op = "create_trail"
        /\ Lower(tm_last.arg) \notin tm_last.pre_tm.breadcrumbs
        /\ Lower(tm_last.arg) \notin tm_last.pre_tm.visited
        /\ Len(tm_last.pre_tm.active) < tm_last.pre_tm.max_concurrent_trails)
           => /\ tm_last.result # 0
              /\ trails[tm_last.result].trail_query = tm_last.arg
              /\ trails[tm_last.result].status = "PENDING"
    /\ \A q \in tm.visited : \E t \in 1..Len(trails) : Lower(trails[t].trail_query) = q

\* A query that a full manager had refused is created after a trail was
\* finished.
C15_Witness ==
    /\ tm_last.op = "create_trail"
    /\ tm_last.result # 0
    /\ Lower(tm_last.arg) \in tm_log.cap_rejected
    /\ tm_last.pre_tm.completed # <<>>

(***************************************************************************)
(* C16: start_trail(id) returns true only for a trail that is PENDING, and *)
(* then makes it ACTIVE and adds its query to the breadcrumbs; for a trail *)
(* in any other status or an unknown id it returns false and changes       *)
(* nothing (statuses, lists, breadcrumbs): a second start returns false.   *)
(***************************************************************************)
C16_StartOnlyFromPending ==
    tm_last.op = "start_trail" =>
        LET id == tm_last.arg
            known == id \in 1..Len(tm_last.pre_trails)
        IN  /\ tm_last.result = (known /\ tm_last.pre_trails[id].status = "PENDING")
            /\ tm_last.result = TRUE
                   => /\ trails[id].status = "ACTIVE"
                      /\ Lower(trails[id].trail_query) \in tm.breadcrumbs
            /\ tm_last.result = FALSE
                   => tm = tm_last.pre_tm /\ trails = tm_last.pre_trails

\* The second start of a trail.
C16_Witness ==
    /\ tm_last.op = "start_trail"
    /\ tm_last.result = FALSE
    /\ tm_last.arg \in tm_log.was_active
    /\ trails[tm_last.arg].status = "ACTIVE"

(***************************************************************************)
(* C17: a trail's status follows only the lifecycle PENDING -> ACTIVE ->   *)
(* COMPLETED or ABANDONED: no call changes the status of a trail that is   *)
(* COMPLETED or ABANDONED, a PENDING trail can only become ACTIVE, and no  *)
(* trail is COMPLETED or ABANDONED without having been ACTIVE.             *)
(***************************************************************************)
FinalStatuses == {"COMPLETED", "ABANDONED"}

C17_TrailLifecycle ==
    /\ \A t \in 1..Len(trails) :
           trails[t].status \in FinalStatuses => t \in tm_log.was_active
    /\ tm_last.op # "init" =>
           \A t \in 1..Len(tm_last.pre_trails) :
               LET before == tm_last.pre_trails[t].status
                   after == trails[t].status
               IN  /\ before \in FinalStatuses => after = before
                   /\ before = "PENDING" => after \in {"PENDING", "ACTIVE"}
                   /\ before = "ACTIVE" => after \in {"ACTIVE"} \cup FinalStatuses

(***************************************************************************)
(* C18: after any sequence of create_trail, start_trail, complete_trail    *)
(* and abandon_trail calls every created trail appears exactly once across *)
(* the active and the completed list (in the active list iff it is PENDING *)
(* or ACTIVE), get_statistics()['total_trails'] equals the number of       *)
(* successful create_trail calls, and get_statistics changes nothing.      *)
(***************************************************************************)
Occurrences(seq, x) == Cardinality({k \in 1..Len(seq) : seq[k] = x})

C18_EachTrailListedOnce ==
    /\ \A t \in 1..Len(trails) :
           /\ Occurrences(tm.active, t) + Occurrences(tm.completed, t) = 1
           /\ Occurrences(tm.active, t) = 1 <=> trails[t].status \in {"PENDING", "ACTIVE"}
    /\ get_statistics(tm, trails).total_trails = tm_log.created
    /\ tm_last.op = "get_statistics"
           => /\ tm = tm_last.pre_tm
              /\ trails = tm_last.pre_trails
              /\ tm_last.result.total_trails = tm_log.created

(***************************************************************************)
(* C19: when the sub-budget of a startable trail cannot afford the fixed   *)
(* search operation (2000 tokens, 1 API call), execute_trail ends with the *)
(* trail ABANDONED and without findings, no search invocation is awaited,  *)
(* nothing is consumed from the trail's budget (or any other), and the     *)
(* manager's completed list is exactly one longer.                         *)
(***************************************************************************)
ExecuteUnaffordableTrail ==
    LET t == Len(trails')
        b == trails'[t].budget_allocated
    IN  (/\ pc = "trails"
         /\ Len(trails') = Len(trails) + 1
         /\ ~can_afford(View(budgets', usages', b), TrailSearchOp))
            => /\ trails'[t].status = "ABANDONED"
               /\ trails'[t].findings = <<>>
               /\ pc' # "trail_await"
               /\ cur_trail' = 0
               /\ next_finding' = next_finding
               /\ View(budgets', usages', b).current_usage = ZeroUsage
               /\ \A i \in 1..Len(usages) : usages'[i] = usages[i]
               /\ Len(tm'.completed) = Len(tm.completed) + 1
               /\ tm'.completed[Len(tm'.completed)] = t
               /\ tm'.active = tm.active
               /\ tm'.breadcrumbs = tm.breadcrumbs

C19_UnaffordableTrailAbandoned == [][ExecuteUnaffordableTrail]_vars

\* A trail of the run was abandoned: 15% of what the orchestrator had left
\* is less than the 2000 tokens of the trail search.
C19_Witness ==
    /\ pc = "trails"
    /\ trails # <<>>
    /\ LET t == Len(trails)
       IN  /\ trails[t].status = "ABANDONED"
           /\ trails[t].findings = <<>>
           /\ ~can_afford(View(budgets, usages, trails[t].budget_allocated), TrailSearchOp)
           /\ View(budgets, usages, trails[t].budget_allocated).max_tokens > 0
           /\ InSeq(t, tm.completed)

(***************************************************************************)
(* C20: a successful execute_trail (trail started, budget affordable, the  *)
(* search invocation succeeds) adds exactly one Finding to the trail: the  *)
(* trail's findings list is exactly one element longer than before, and    *)
(* the trail ends COMPLETED.                                               *)
(***************************************************************************)
SuccessfulTrailAddsOneFinding ==
    (pc = "trail_await" /\ next_finding' # next_finding)
        => /\ Len(trails'[cur_trail].findings) = Len(trails[cur_trail].findings) + 1
           /\ trails'[cur_trail].status = "COMPLETED"

C20_SuccessfulTrailOneFinding == [][SuccessfulTrailAddsOneFinding]_vars

(***************************************************************************)
(* C21: within one execute_trail the affordability check precedes the      *)
(* search invocation, which precedes the finding and the consumption: a    *)
(* search is awaited only for a trail whose budget affords the operation,  *)
(* findings and charges appear only when an awaited search returns, and a  *)
(* trail's budget is charged the search operation if and only if a finding *)
(* was recorded for the trail in that step; nothing is charged when the    *)
(* check or the invocation failed.                                         *)
(***************************************************************************)
TrailUsage(B, U, T, t) == View(B, U, T[t].budget_allocated).current_usage

TrailChargedIffFinding ==
    /\ \A t \in 1..Len(trails) :
           LET before == TrailUsage(budgets, usages, trails, t)
               after == TrailUsage(budgets', usages', trails', t)
               recorded == trails'[t].findings # trails[t].findings
           IN  /\ (after # before) <=> recorded
               /\ recorded => /\ pc = "trail_await"
                              /\ t = cur_trail
                              /\ after = add(before, to_usage(TrailSearchOp))
                              /\ can_afford([View(budgets, usages, trails[t].budget_allocated)
                                               EXCEPT !.current_usage = before],
                                            TrailSearchOp)
    /\ \A t \in (Len(trails) + 1)..Len(trails') :
           /\ trails'[t].findings = <<>>
           /\ TrailUsage(budgets', usages', trails', t) = ZeroUsage
    /\ pc' = "trail_await" /\ pc # "trail_await"
           => can_afford(View(budgets', usages', trails'[cur_trail'].budget_allocated),
                         TrailSearchOp)

C21_ChargedIffFindingRecorded == [][TrailChargedIffFinding]_vars

\* Two trails were followed in one run: the search of one failed (nothing
\* charged), the search of the other succeeded (charged once).
C21_Witness ==
    /\ pc = "trails"
    /\ \E t1, t2 \in 1..Len(trails) :
           /\ trails[t1].status = "COMPLETED"
           /\ trails[t1].findings = <<>>
           /\ TrailUsage(budgets, usages, trails, t1) = ZeroUsage
           /\ trails[t2].findings # <<>>
           /\ TrailUsage(budgets, usages, trails, t2) = to_usage(TrailSearchOp)

(***************************************************************************)
(* C22: if the search invocation made by execute_trail fails, the failure  *)
(* does not propagate and the trail ends ABANDONED (not COMPLETED).        *)
(***************************************************************************)
FailedSearchAbandonsTrail ==
    (pc = "trail_await" /\ next_finding' = next_finding)
        => /\ escaped' = "none"
           /\ trails'[cur_trail].status = "ABANDONED"

C22_FailedSearchAbandoned == [][FailedSearchAbandonsTrail]_vars

(***************************************************************************)
(* trail_execution.py: execute_trails_parallel.  SpecPar: a caller         *)
(* prepares trails the way _follow_trails does (a child budget allocated   *)
(* from the orchestrator's budget for each, the trail created in the       *)
(* manager) and hands them to one execute_trails_parallel call.  The tasks *)
(* are asyncio tasks of one event loop: a task runs without interruption   *)
(* from one suspension point to the next.  The suspension points are the   *)
(* semaphore's acquire (when it is locked) and the awaited search          *)
(* invocation of execute_trail.                                            *)
(***************************************************************************)
MaxQueued == 3
MaxConcurrent == 2

\* A task of `tasks`: waiting for the semaphore, inside execute_trail at the
\* awaited search invocation, or finished with the value it returned.
ParCall(queue, max_concurrent) ==
    [phase |-> "running",
     queue |-> queue,
     max_concurrent |-> max_concurrent,
     semaphore |-> max_concurrent,
     task |-> [k \in 1..Len(queue) |-> "waiting"],
     results |-> [k \in 1..Len(queue) |-> [kind |-> "pending"]],
     acting |-> 0,
     returned |-> <<>>]

semaphore_never_locked(P, k) == FALSE

\* asyncio.Semaphore.locked() as task k finds it at `async with semaphore`:
\* no permit is left, or a task queued before k still waits for one.
semaphore_locked(P, k) ==
    \/ P.semaphore = 0
    \/ \E j \in 1..(k - 1) : P.task[j] = "waiting"

\* The tasks inside execute_trail (holding a permit of the semaphore).
InFlight(P) == {k \in DOMAIN P.task : P.task[k] = "awaiting"}

\* `r for r in results if isinstance(r, ResearchTrail)`
RECURSIVE completed_trails(_, _)
completed_trails(results, k) ==
    IF k > Len(results) THEN <<>>
    ELSE IF results[k].kind = "trail"
    THEN <<results[k].trail>> \o completed_trails(results, k + 1)
    ELSE completed_trails(results, k + 1)

ParInit ==
    /\ SMIdle
    /\ \E b \in RunBudgets : budgets = <<b>>
    /\ usages = <<ZeroUsage>>
    /\ links = <<NoLink>>
    /\ b_last = [op |-> "init"]
    /\ steps = 0
    /\ pc = "idle"
    /\ yields = <<>>
    /\ escaped = "none"
    /\ config \in {c \in RunConfigs : c.enable_autonomous_trails}
    /\ plan = 0
    /\ ctx_findings = <<>>
    /\ ctx_trails = <<>>
    /\ suggestions = <<>>
    /\ trails = <<>>
    /\ tm = TrailManager(config.max_concurrent_trails)
    /\ cur_trail = 0
    /\ next_finding = 1
    /\ tm_last = NoCall
    /\ tm_log = EmptyLog
    /\ par = [phase |-> "prepare", queue |-> <<>>]
    /\ registry = [phase |-> "idle"]
    /\ invocations = [phase |-> "idle"]
    /\ handoff = [phase |-> "idle"]
    /\ discovery = [phase |-> "idle"]

par_frame == <<sm_vars, budget_ghost, tm_ghost, pc, yields, escaped, config, plan,
               ctx_findings, ctx_trails, suggestions, cur_trail,
               registry, invocations, handoff, discovery>>

\* research_coordinator.py 291-302 and 312 for one suggestion: the child
\* budget, the depth up, the trail, the depth down; the execution is left to
\* the parallel call.
ParPrepare(trail_query) ==
    /\ par.phase = "prepare"
    /\ Len(budgets) <= MaxQueued
    /\ can_afford_trail(View(budgets, usages, 1))
    /\ LET alloc == allocate_for_trail(budgets, usages, 1, TrailPercentage)
           deeper == increment_trail_depth(alloc.budgets, 1)
           ct == create_trail(tm, trails, trail_query, SuggestionRelevance,
                              Len(alloc.budgets))
       IN  /\ budgets' = decrement_trail_depth(deeper, 1)
           /\ usages' = alloc.usages
           /\ links' = Append(links, [parent |-> 1,
                                      parent_view |-> View(budgets, usages, 1),
                                      percentage |-> TrailPercentage])
           /\ trails' = ct.trails
           /\ tm' = ct.tm
           /\ par' = IF ct.trail = 0 THEN par
                     ELSE [par EXCEPT !.queue = Append(@, ct.trail)]
    /\ UNCHANGED <<par_frame, next_finding>>

\* The caller lists a trail it has already queued once more: the second
\* execute_trail finds it started or finished.
ParQueueAgain(k) ==
    /\ par.phase = "prepare"
    /\ k \in 1..Len(par.queue)
    /\ Len(par.queue) < MaxQueued
    /\ par' = [par EXCEPT !.queue = Append(@, par.queue[k])]
    /\ UNCHANGED <<par_frame, budgets, usages, links, trails, tm, next_finding>>

\* The caller queues a ResearchTrail it constructed itself, around a child
\* budget allocated like the others: its id is unknown to the manager.
ParQueueUnmanaged(trail_query) ==
    /\ par.phase = "prepare"
    /\ Len(budgets) <= MaxQueued
    /\ Len(par.queue) < MaxQueued
    /\ can_afford_trail(View(budgets, usages, 1))
    /\ LET alloc == allocate_for_trail(budgets, usages, 1, TrailPercentage)
       IN  /\ budgets' = alloc.budgets
           /\ usages' = alloc.usages
           /\ links' = Append(links, [parent |-> 1,
                                      parent_view |-> View(budgets, usages, 1),
                                      percentage |-> TrailPercentage])
           /\ trails' = Append(trails, ResearchTrail(Len(trails) + 1, trail_query,
                                                     SuggestionRelevance,
                                                     Len(alloc.budgets)))
           /\ par' = [par EXCEPT !.queue = Append(@, Len(trails) + 1)]
    /\ UNCHANGED <<par_frame, tm, next_finding>>

\* execute_trails_parallel(trails, max_concurrent): the semaphore and one
\* task per trail, handed to gather.
ParLaunch(max_concurrent) ==
    /\ par.phase = "prepare"
    /\ par' = ParCall(par.queue, max_concurrent)
    /\ UNCHANGED <<par_frame, budgets, usages, links, trails, tm, next_finding>>

\* Task k passes `async with semaphore` and runs execute_trail up to its
\* first suspension: start_trail, the affordability check, and either an
\* early return (the permit is released at once) or the awaited search.
ParStart(k) ==
    /\ par.phase = "running"
    /\ k \in DOMAIN par.task
    /\ par.task[k] = "waiting"
    /\ ~semaphore_locked(par, k)
    /\ LET t == par.queue[k]
           st == start_trail(tm, trails, t)
           ab == abandon_trail(st.tm, st.trails, t)
           returns == [par EXCEPT !.task[k] = "done",
                                  !.results[k] = [kind |-> "trail", trail |-> t],
                                  !.acting = k]
       IN  IF ~st.ok
           THEN /\ trails' = st.trails
                /\ tm' = st.tm
                /\ par' = returns
           ELSE IF ~can_afford(View(budgets, usages, trails[t].budget_allocated),
                               TrailSearchOp)
           THEN /\ trails' = ab.trails
                /\ tm' = ab.tm
                /\ par' = returns
           ELSE /\ trails' = st.trails
                /\ tm' = st.tm
                /\ par' = [par EXCEPT !.task[k] = "awaiting",
                                      !.semaphore = @ - 1,
                                      !.acting = k]
    /\ UNCHANGED <<par_frame, budgets, usages, links, next_finding>>

\* The search invocation of task k returns or fails; execute_trail runs to
\* its end (finding, consumption, complete_trail) and the permit is released.
ParFinish(k, invocation_ok) ==
    /\ par.phase = "running"
    /\ k \in DOMAIN par.task
    /\ par.task[k] = "awaiting"
    /\ LET t == par.queue[k]
           appended == [trails EXCEPT ![t].findings = Append(@, next_finding)]
           registered == add_finding_to_trail(tm, appended, t, next_finding)
           found == IF invocation_ok THEN registered ELSE trails
           done == complete_trail(tm, found, t)
       IN  /\ usages' = IF invocation_ok
                        THEN consume(budgets, usages, trails[t].budget_allocated,
                                     TrailSearchOp)
                        ELSE usages
           /\ next_finding' = IF invocation_ok THEN next_finding + 1 ELSE next_finding
           /\ trails' = done.trails
           /\ tm' = done.tm
           /\ par' = [par EXCEPT !.task[k] = "done",
                                 !.results[k] = [kind |-> "trail", trail |-> t],
                                 !.semaphore = @ + 1,
                                 !.acting = k]
    /\ UNCHANGED <<par_frame, budgets, links>>

\* gather has every task's result: the trails among them are returned.
ParReturn ==
    /\ par.phase = "running"
    /\ \A k \in DOMAIN par.task : par.task[k] = "done"
    /\ par' = [par EXCEPT !.phase = "returned",
                          !.acting = 0,
                          !.returned = completed_trails(par.results, 1)]
    /\ UNCHANGED <<par_frame, budgets, usages, links, trails, tm, next_finding>>

InitPar == ParInit

NextPar ==
    \/ \E q \in Queries : ParPrepare(q)
    \/ \E k \in 1..MaxQueued : ParQueueAgain(k)
    \/ \E q \in Queries : ParQueueUnmanaged(q)
    \/ \E m \in 0..MaxConcurrent : ParLaunch(m)
    \/ \E k \in 1..MaxQueued : ParStart(k)
    \/ \E k \in 1..MaxQueued, invocation_ok \in BOOLEAN : ParFinish(k, invocation_ok)
    \/ ParReturn

SpecPar == InitPar /\ [][NextPar]_vars

(***************************************************************************)
(* C23: execute_trails_parallel(trails, max_concurrent) never has more     *)
(* than max_concurrent execute_trail executions in flight, whatever the    *)
(* number of queued trails and the order in which the awaited searches     *)
(* return, and every trail whose execution did not raise is in the         *)
(* returned list.                                                          *)
(***************************************************************************)
C23_AtMostMaxConcurrentInFlight ==
    /\ par.phase = "running"
          => /\ Cardinality(InFlight(par)) <= par.max_concurrent
             /\ par.semaphore = par.max_concurrent - Cardinality(InFlight(par))
    /\ par.phase = "returned"
          => /\ par.returned = par.queue
             /\ \A k \in DOMAIN par.results : par.results[k].kind = "trail"

\* Two executions are in flight under max_concurrent = 2 while a third trail
\* waits for a permit.
C23_Witness ==
    /\ par.phase = "running"
    /\ par.max_concurrent = 2
    /\ Cardinality(InFlight(par)) = 2
    /\ \E k \in DOMAIN par.task : par.task[k] = "waiting"

(***************************************************************************)
(* C24: trail execution only touches the trail's own allocated budget.  In *)
(* every step an execute_trail task takes under execute_trails_parallel,   *)
(* whatever the interleaving, no budget object changes (so the             *)
(* orchestrator's depth stays), the usage counters of every budget other   *)
(* than the acting trail's own stay as they were (so the orchestrator's    *)
(* usage stays), and the trail's own budget is not the orchestrator's.     *)
(***************************************************************************)
TrailExecutionTouchesOwnBudget ==
    (par.phase = "running" /\ par'.phase = "running")
        => LET own == trails[par.queue[par'.acting]].budget_allocated
           IN  /\ own # 1
               /\ budgets' = budgets
               /\ \A i \in 1..Len(budgets) :
                      i # own => View(budgets', usages', i).current_usage
                                     = View(budgets, usages, i).current_usage

C24_TrailTouchesOwnBudgetOnly == [][TrailExecutionTouchesOwnBudget]_vars

\* One trail's execution has charged its budget while another execution is
\* still in flight; the orchestrator's budget has been charged nothing.
C24_Witness ==
    /\ par.phase = "running"
    /\ \E k1, k2 \in DOMAIN par.task :
           /\ par.task[k1] = "done"
           /\ TrailUsage(budgets, usages, trails, par.queue[k1]) = to_usage(TrailSearchOp)
           /\ par.task[k2] = "awaiting"
           /\ TrailUsage(budgets, usages, trails, par.queue[k2]) = ZeroUsage
    /\ View(budgets, usages, 1).current_usage = ZeroUsage

(***************************************************************************)
(* agent_registry.py: AgentInfo and AgentRegistry.  SpecReg: one registry  *)
(* under arbitrary register_agent, unregister_agent,                       *)
(* set_agent_availability and get_agent_for_capability calls, with         *)
(* invoke_agent_tool calls running concurrently as asyncio tasks (each     *)
(* suspended at the awaited Runner.run).  AgentInfo objects live on a heap *)
(* (registry.infos, index = identity): an invocation keeps the object it   *)
(* looked up, and a re-registration puts a new object under the id.        *)
(***************************************************************************)
MaxRegistryCalls == 3
MaxInvocations == 2

AgentIds == {"search_agent", "writer_agent"}

\* Two of the six members of Capability.
Capabilities == {"SEARCHING", "WRITING"}

\* The `capabilities` lists callers pass.
CapabilitySets == {{"SEARCHING"}, {"WRITING"}, {"SEARCHING", "WRITING"}}

AgentInfo(agent_id, capabilities) ==
    [agent_id |-> agent_id,
     capabilities |-> capabilities,
     is_available |-> TRUE,
     call_count |-> 0,
     failure_count |-> 0]

record_call_not_counted(info) == info

record_call(info) == [info EXCEPT !.call_count = @ + 1]

record_failure_counted_as_call(info) == [info EXCEPT !.call_count = @ + 1]

record_failure(info) == [info EXCEPT !.failure_count = @ + 1]

success_rate(info) ==
    LET total == info.call_count + info.failure_count
    IN  IF total = 0 THEN RInt(1) ELSE Rat(info.call_count, total)

\* AgentRegistry.__init__: agents[id] is the heap index of the AgentInfo
\* under id (0: not in _agents).
AgentRegistry ==
    [infos |-> <<>>,
     agents |-> [id \in AgentIds |-> 0],
     capability_map |-> [c \in Capabilities |-> <<>>]]

\* list.remove: the first occurrence goes.
RECURSIVE remove(_, _)
remove(seq, x) ==
    IF seq = <<>> THEN <<>>
    ELSE IF Head(seq) = x THEN Tail(seq)
    ELSE <<Head(seq)>> \o remove(Tail(seq), x)

register_agent(R, agent_id, capabilities) ==
    [R EXCEPT !.infos = Append(@, AgentInfo(agent_id, capabilities)),
              !.agents[agent_id] = Len(R.infos) + 1,
              !.capability_map =
                  [c \in Capabilities |->
                      IF c \in capabilities /\ ~InSeq(agent_id, R.capability_map[c])
                      THEN Append(R.capability_map[c], agent_id)
                      ELSE R.capability_map[c]]]

unregister_agent(R, agent_id) ==
    IF R.agents[agent_id] = 0 THEN R
    ELSE [R EXCEPT !.capability_map =
                       [c \in Capabilities |->
                           IF /\ c \in R.infos[R.agents[agent_id]].capabilities
                              /\ InSeq(agent_id, R.capability_map[c])
                           THEN remove(R.capability_map[c], agent_id)
                           ELSE R.capability_map[c]],
                   !.agents[agent_id] = 0]

\* get_agent: 0 for None.
get_agent(R, agent_id) == R.agents[agent_id]

set_agent_availability(R, agent_id, is_available) ==
    IF R.agents[agent_id] # 0
    THEN [R EXCEPT !.infos[R.agents[agent_id]].is_available = is_available]
    ELSE R

\* `[self._agents[aid] for aid in agent_ids if self._agents[aid].is_available]`:
\* the heap indices of the available agents in index order; the subscript
\* raises KeyError for an id that is not in _agents.
available_agents(R, agent_ids) ==
    IF \E k \in 1..Len(agent_ids) : R.agents[agent_ids[k]] = 0
    THEN [kind |-> "KeyError", agents |-> <<>>]
    ELSE LET IsAvailable(aid) == R.infos[R.agents[aid]].is_available
             ObjectOf(ids) == [k \in 1..Len(ids) |-> R.agents[ids[k]]]
         IN  [kind |-> "list", agents |-> ObjectOf(SelectSeq(agent_ids, IsAvailable))]

\* sort(key=success_rate, reverse=True)[0]: the sort is stable, so the
\* first of the list among those with the highest rate.
RECURSIVE sorted_first(_, _, _)
sorted_first(R, objects, best) ==
    IF objects = <<>> THEN best
    ELSE IF RLt(success_rate(R.infos[best]), success_rate(R.infos[Head(objects)]))
    THEN sorted_first(R, Tail(objects), Head(objects))
    ELSE sorted_first(R, Tail(objects), best)

get_agent_for_capability(R, capability) ==
    LET agent_ids == R.capability_map[capability]
        available == available_agents(R, agent_ids)
    IN  IF agent_ids = <<>> THEN [kind |-> "None", info |-> 0]
        ELSE IF available.kind = "KeyError" THEN [kind |-> "KeyError", info |-> 0]
        ELSE IF available.agents = <<>> THEN [kind |-> "None", info |-> 0]
        ELSE [kind |-> "AgentInfo",
              info |-> sorted_first(R, Tail(available.agents), Head(available.agents))]

get_all_agents_for_capability(R, capability) ==
    available_agents(R, R.capability_map[capability])

\* What the model keeps per AgentInfo object about invoke_agent_tool calls:
\* those suspended at Runner.run, those that reached Runner.run, how they
\* ended, and the largest number suspended at once.
\* No invoke_agent_tool call has been made yet.
NoInvocation == [agent_id |-> "none", info |-> 0, returned |-> FALSE, raised |-> "none"]

NoInvocations ==
    [in_flight |-> 0, reached |-> 0, succeeded |-> 0, failed |-> 0, peak |-> 0]

\* No lookup has been recorded since the registry last changed.
NoLookup == [capability |-> "none", result |-> [kind |-> "none", info |-> 0]]

\* Per capability and id, the registration (heap index) since which the id
\* has had the capability without interruption (0: it does not have it).
listed_since(R, since, agent_id, capabilities) ==
    [c \in Capabilities |->
        [id \in AgentIds |->
            IF id # agent_id THEN since[c][id]
            ELSE IF c \notin capabilities THEN 0
            ELSE IF since[c][id] # 0 THEN since[c][id]
            ELSE Len(R.infos) + 1]]

RegInit ==
    /\ SMIdle
    /\ BudgetIdle
    /\ RunCoreIdle
    /\ par = [phase |-> "idle"]
    /\ registry = [reg |-> AgentRegistry,
                   since |-> [c \in Capabilities |-> [id \in AgentIds |-> 0]],
                   lookup |-> NoLookup,
                   calls |-> 0]
    /\ invocations = [started |-> 0, rejected |-> 0, per |-> <<>>,
                      last |-> NoInvocation]
    /\ handoff = [phase |-> "idle"]
    /\ discovery = [phase |-> "idle"]

reg_frame == <<sm_vars, budget_vars, pc, yields, escaped, config, plan, ctx_findings,
               ctx_trails, suggestions, trails, tm, cur_trail, next_finding,
               tm_last, tm_log, par, handoff, discovery>>

RegisterAgent(agent_id, capabilities) ==
    /\ registry.calls < MaxRegistryCalls
    /\ registry' = [reg |-> register_agent(registry.reg, agent_id, capabilities),
                    since |-> listed_since(registry.reg, registry.since, agent_id,
                                           capabilities),
                    lookup |-> NoLookup,
                    calls |-> registry.calls + 1]
    /\ invocations' = [invocations EXCEPT !.per = Append(@, NoInvocations)]
    /\ UNCHANGED reg_frame

UnregisterAgent(agent_id) ==
    /\ registry.calls < MaxRegistryCalls
    /\ registry' = [reg |-> unregister_agent(registry.reg, agent_id),
                    since |-> IF registry.reg.agents[agent_id] = 0 THEN registry.since
                              ELSE listed_since(registry.reg, registry.since, agent_id, {}),
                    lookup |-> NoLookup,
                    calls |-> registry.calls + 1]
    /\ UNCHANGED <<reg_frame, invocations>>

SetAgentAvailability(agent_id, is_available) ==
    /\ registry.calls < MaxRegistryCalls
    /\ registry' = [registry EXCEPT
                        !.reg = set_agent_availability(registry.reg, agent_id, is_available),
                        !.lookup = NoLookup,
                        !.calls = @ + 1]
    /\ UNCHANGED <<reg_frame, invocations>>

GetAgentForCapability(capability) ==
    /\ registry' = [registry EXCEPT
                        !.lookup = [capability |-> capability,
                                    result |-> get_agent_for_capability(registry.reg,
                                                                        capability)]]
    /\ UNCHANGED <<reg_frame, invocations>>

\* invoke_agent_tool up to the awaited Runner.run: ValueError for an id that
\* is not registered and RuntimeError for an unavailable agent leave the
\* counters alone; otherwise the call holds the AgentInfo and is suspended.
InvokeBegin(agent_id) ==
    /\ invocations.started < MaxInvocations
    /\ LET info == get_agent(registry.reg, agent_id)
       IN  IF info = 0 \/ ~registry.reg.infos[info].is_available
           THEN invocations' =
                    [invocations EXCEPT
                        !.started = @ + 1,
                        !.rejected = @ + 1,
                        !.last = [agent_id |-> agent_id, info |-> info,
                                  returned |-> FALSE,
                                  raised |-> IF info = 0 THEN "ValueError"
                                             ELSE "RuntimeError"]]
           ELSE invocations' =
                    [invocations EXCEPT
                        !.started = @ + 1,
                        !.last = [agent_id |-> agent_id, info |-> info,
                                  returned |-> FALSE, raised |-> "none"],
                        !.per[info].in_flight = @ + 1,
                        !.per[info].reached = @ + 1,
                        !.per[info].peak =
                            IF invocations.per[info].in_flight + 1 > @
                            THEN invocations.per[info].in_flight + 1 ELSE @]
    /\ UNCHANGED <<reg_frame, registry>>

\* invoke_agent_tool after the awaited Runner.run: record_call and the
\* result, or (asyncio.TimeoutError, any other Exception) record_failure and
\* the exception again.
InvokeEnd(info, outcome) ==
    /\ info \in 1..Len(invocations.per)
    /\ invocations.per[info].in_flight > 0
    /\ registry' = [registry EXCEPT
                        !.reg.infos[info] = IF outcome = "returned"
                                            THEN record_call(@)
                                            ELSE record_failure(@),
                        !.lookup = NoLookup]
    /\ invocations' = [invocations EXCEPT
                          !.last = [agent_id |-> registry.reg.infos[info].agent_id,
                                    info |-> info,
                                    returned |-> outcome = "returned",
                                    raised |-> IF outcome = "returned" THEN "none"
                                               ELSE outcome],
                          !.per[info].in_flight = @ - 1,
                          !.per[info].succeeded = IF outcome = "returned" THEN @ + 1 ELSE @,
                          !.per[info].failed = IF outcome = "returned" THEN @ ELSE @ + 1]
    /\ UNCHANGED reg_frame

InvocationOutcomes == {"returned", "TimeoutError", "Exception"}

InitReg == RegInit

NextReg ==
    \/ \E id \in AgentIds, caps \in CapabilitySets : RegisterAgent(id, caps)
    \/ \E id \in AgentIds : UnregisterAgent(id)
    \/ \E id \in AgentIds, avail \in BOOLEAN : SetAgentAvailability(id, avail)
    \/ \E c \in Capabilities : GetAgentForCapability(c)
    \/ \E id \in AgentIds : InvokeBegin(id)
    \/ \E info \in 1..MaxRegistryCalls, outcome \in InvocationOutcomes :
          InvokeEnd(info, outcome)

SpecReg == InitReg /\ [][NextReg]_vars

(***************************************************************************)
(* C25: under any interleaving of concurrent invocations through the same  *)
(* executor no counter update is lost: call_count is the number of         *)
(* invocations that succeeded, failure_count the number that failed        *)
(* (timeouts included), and once none is in flight their sum is the number *)
(* of invocations that reached the executor.                               *)
(***************************************************************************)
C25_NoCounterUpdateLost ==
    \A info \in 1..Len(registry.reg.infos) :
        LET seen == invocations.per[info]
            counted == registry.reg.infos[info]
        IN  /\ counted.call_count = seen.succeeded
            /\ counted.failure_count = seen.failed
            /\ counted.call_count + counted.failure_count + seen.in_flight = seen.reached

\* Two invocations through one executor, suspended at the same time, have
\* both finished: one succeeded, one failed.
C25_Witness ==
    \E info \in 1..Len(registry.reg.infos) :
        /\ invocations.per[info].peak >= 2
        /\ invocations.per[info].in_flight = 0
        /\ invocations.per[info].reached = 2
        /\ registry.reg.infos[info].call_count >= 1
        /\ registry.reg.infos[info].failure_count >= 1

(***************************************************************************)
(* C26: get_agent_for_capability(c) returns, among the executors currently *)
(* registered for c and not disabled, one with the maximum success_rate,   *)
(* the one registered for c earliest winning ties; it returns none         *)
(* exactly when no available executor has the capability.                  *)
(***************************************************************************)
\* The ids currently registered with capability c and available.
AvailableFor(R, c) ==
    {id \in AgentIds : /\ R.agents[id] # 0
                       /\ c \in R.infos[R.agents[id]].capabilities
                       /\ R.infos[R.agents[id]].is_available}

C26_BestAvailableAgentReturned ==
    registry.lookup.capability \in Capabilities
        => LET R == registry.reg
               c == registry.lookup.capability
               result == registry.lookup.result
               candidates == AvailableFor(R, c)
               RateOf(id) == success_rate(R.infos[R.agents[id]])
           IN  /\ result.kind = "None" <=> candidates = {}
               /\ candidates # {}
                     => /\ result.kind = "AgentInfo"
                        /\ R.infos[result.info].agent_id \in candidates
                        /\ R.agents[R.infos[result.info].agent_id] = result.info
                        /\ \A other \in candidates :
                              LET chosen == R.infos[result.info].agent_id
                              IN  /\ RLe(RateOf(other), RateOf(chosen))
                                  /\ RateOf(other) = RateOf(chosen)
                                        => registry.since[c][chosen]
                                               <= registry.since[c][other]

(***************************************************************************)
(* C27: the capability index stays in sync with registration and           *)
(* unregistration: after any sequence of register_agent (re-registration   *)
(* with a different capability set included) and unregister_agent calls,   *)
(* an id is listed under capability c if and only if the id is currently   *)
(* registered and its current capabilities include c.                      *)
(***************************************************************************)
C27_CapabilityIndexInSync ==
    \A c \in Capabilities, id \in AgentIds :
        InSeq(id, registry.reg.capability_map[c])
            <=> /\ registry.reg.agents[id] # 0
                /\ c \in registry.reg.infos[registry.reg.agents[id]].capabilities

(***************************************************************************)
(* handoff_controller.py: HandoffController.  SpecHandoff: one controller, *)
(* one research context and one registry.  Handoff calls are made one      *)
(* after the other; while a call is suspended at the awaited invocation    *)
(* the registry may be called (registration, availability).  The           *)
(* invocations the controller makes are kept in handoff.call.              *)
(***************************************************************************)
MaxHandoffCalls == 2
MaxRetries == 1

HandoffRecord(from_agent, to_agent) == [from_agent |-> from_agent, to_agent |-> to_agent]

add_handoff_not_recorded(handoff_history, record) == handoff_history

\* ResearchContext.add_handoff
add_handoff(handoff_history, record) == Append(handoff_history, record)

\* No handoff call in progress; the shape of a call: its kind, the list the
\* directory returned (agent ids), the attempts made (target and outcome),
\* the AgentInfo of the awaited invocation, how the call ended.
NoHandoffCall ==
    [kind |-> "none", state |-> "idle", capability |-> "none", max_retries |-> 0,
     agents |-> <<>>, listed |-> <<>>, attempts |-> <<>>, awaiting |-> 0,
     error |-> [attempt |-> 0, type |-> "none"], base |-> 0]

HandoffCall(kind, capability, max_retries, agents, listed, base) ==
    [NoHandoffCall EXCEPT !.kind = kind, !.capability = capability,
                          !.max_retries = max_retries, !.agents = agents,
                          !.listed = listed, !.base = base]

\* invoke_agent_tool up to the awaited Runner.run.
invoke_check(R, agent_id) ==
    IF get_agent(R, agent_id) = 0 THEN "ValueError"
    ELSE IF ~R.infos[get_agent(R, agent_id)].is_available THEN "RuntimeError"
    ELSE "awaiting"

\* handoff_to_agent up to the awaited invocation (or the exception
\* invoke_agent_tool raises before it): the count, the record, the attempt.
handoff_to_agent(R, H, to_agent_id) ==
    [H EXCEPT !.count = @ + 1,
              !.history = add_handoff(@, HandoffRecord("orchestrator", to_agent_id)),
              !.call.attempts = Append(@, [to |-> to_agent_id,
                                           outcome |-> invoke_check(R, to_agent_id)]),
              !.call.awaiting = IF invoke_check(R, to_agent_id) = "awaiting"
                                THEN get_agent(R, to_agent_id) ELSE 0]

\* The exception of the last attempt made.
last_error(H) ==
    IF H.call.attempts = <<>> THEN [attempt |-> 0, type |-> "RuntimeError"]
    ELSE [attempt |-> Len(H.call.attempts),
          type |-> H.call.attempts[Len(H.call.attempts)].outcome]

attempt_every_agent(agents, max_retries) == Len(agents)

\* len(agents[:max_retries + 1]) for max_retries >= 0
attempt_limit(agents, max_retries) == Min(Len(agents), max_retries + 1)

\* The loop of handoff_with_fallback from its k-th iteration on, up to the
\* next awaited invocation or the end of the loop.
RECURSIVE fallback_from(_, _, _)
fallback_from(R, H, k) ==
    IF k > attempt_limit(H.call.agents, H.call.max_retries)
    THEN [H EXCEPT !.call.state = "raised", !.call.error = last_error(H)]
    ELSE LET tried == handoff_to_agent(R, H, H.call.agents[k])
         IN  IF tried.call.awaiting # 0
             THEN [tried EXCEPT !.call.state = "awaiting"]
             ELSE fallback_from(R, tried, k + 1)

\* The agent ids of a list of AgentInfo objects.
agent_ids_of(R, objects) == [k \in 1..Len(objects) |-> R.infos[objects[k]].agent_id]

HandoffInit ==
    /\ SMIdle
    /\ BudgetIdle
    /\ RunCoreIdle
    /\ par = [phase |-> "idle"]
    /\ registry = [reg |-> AgentRegistry,
                   since |-> [c \in Capabilities |-> [id \in AgentIds |-> 0]],
                   lookup |-> NoLookup,
                   calls |-> 0]
    /\ invocations = [started |-> 0, rejected |-> 0, per |-> <<>>,
                      last |-> NoInvocation]
    /\ handoff = [count |-> 0, history |-> <<>>, calls |-> 0, call |-> NoHandoffCall]
    /\ discovery = [phase |-> "idle"]

handoff_frame == <<sm_vars, budget_vars, pc, yields, escaped, config, plan, ctx_findings,
                   ctx_trails, suggestions, trails, tm, cur_trail, next_finding,
                   tm_last, tm_log, par, invocations, discovery>>

\* A new handoff call may start: none is suspended.
HandoffCallStarts ==
    /\ handoff.call.state # "awaiting"
    /\ handoff.calls < MaxHandoffCalls

HandoffToAgent(to_agent_id) ==
    /\ HandoffCallStarts
    /\ LET began == [handoff EXCEPT
                         !.calls = @ + 1,
                         !.call = HandoffCall("direct", "none", 0, <<to_agent_id>>, <<>>,
                                              Len(handoff.history))]
           tried == handoff_to_agent(registry.reg, began, to_agent_id)
       IN  handoff' = IF tried.call.awaiting # 0
                      THEN [tried EXCEPT !.call.state = "awaiting"]
                      ELSE [tried EXCEPT !.call.state = "raised",
                                         !.call.error = last_error(tried)]
    /\ UNCHANGED <<handoff_frame, registry>>

HandoffToCapability(capability) ==
    /\ HandoffCallStarts
    /\ LET chosen == get_agent_for_capability(registry.reg, capability)
           began == [handoff EXCEPT
                         !.calls = @ + 1,
                         !.call = HandoffCall("capability", capability, 0, <<>>, <<>>,
                                              Len(handoff.history))]
           to_agent_id == registry.reg.infos[chosen.info].agent_id
           tried == handoff_to_agent(registry.reg,
                                     [began EXCEPT !.call.agents = <<to_agent_id>>],
                                     to_agent_id)
       IN  handoff' =
               IF chosen.kind = "None"
               THEN [began EXCEPT !.call.state = "raised",
                                  !.call.error = [attempt |-> 0, type |-> "RuntimeError"]]
               ELSE IF chosen.kind = "KeyError"
               THEN [began EXCEPT !.call.state = "raised",
                                  !.call.error = [attempt |-> 0, type |-> "KeyError"]]
               ELSE IF tried.call.awaiting # 0
               THEN [tried EXCEPT !.call.state = "awaiting"]
               ELSE [tried EXCEPT !.call.state = "raised",
                                  !.call.error = last_error(tried)]
    /\ UNCHANGED <<handoff_frame, registry>>

HandoffWithFallback(capability, max_retries) ==
    /\ HandoffCallStarts
    /\ LET agents == get_all_agents_for_capability(registry.reg, capability)
           began == [handoff EXCEPT
                         !.calls = @ + 1,
                         !.call = HandoffCall("fallback", capability, max_retries,
                                              agent_ids_of(registry.reg, agents.agents),
                                              registry.reg.capability_map[capability],
                                              Len(handoff.history))]
       IN  handoff' =
               IF agents.kind = "KeyError"
               THEN [began EXCEPT !.call.state = "lookup_raised",
                                  !.call.error = [attempt |-> 0, type |-> "KeyError"]]
               ELSE IF agents.agents = <<>>
               THEN [began EXCEPT !.call.state = "returned_none"]
               ELSE fallback_from(registry.reg, began, 1)
    /\ UNCHANGED <<handoff_frame, registry>>

\* The awaited invocation returns or raises: the counter of the AgentInfo
\* the invocation holds, then the result or the exception goes to
\* handoff_to_agent and its caller; handoff_with_fallback goes on with the
\* next agent of its list.
HandoffInvocationEnds(outcome) ==
    /\ handoff.call.state = "awaiting"
    /\ LET info == handoff.call.awaiting
           R == [registry.reg EXCEPT !.infos[info] = IF outcome = "returned"
                                                     THEN record_call(@)
                                                     ELSE record_failure(@)]
           ended == [handoff EXCEPT
                         !.call.attempts[Len(handoff.call.attempts)].outcome = outcome,
                         !.call.awaiting = 0]
       IN  /\ registry' = [registry EXCEPT !.reg = R, !.lookup = NoLookup]
           /\ handoff' =
                  IF outcome = "returned"
                  THEN [ended EXCEPT !.call.state = "returned"]
                  ELSE IF handoff.call.kind = "fallback"
                  THEN fallback_from(R, ended, Len(ended.call.attempts) + 1)
                  ELSE [ended EXCEPT !.call.state = "raised",
                                     !.call.error = last_error(ended)]
    /\ UNCHANGED handoff_frame

InitHandoff == HandoffInit

NextHandoff ==
    \/ \E id \in AgentIds, caps \in CapabilitySets : RegisterAgent(id, caps)
    \/ \E id \in AgentIds : UnregisterAgent(id)
    \/ \E id \in AgentIds, avail \in BOOLEAN : SetAgentAvailability(id, avail)
    \/ \E id \in AgentIds : HandoffToAgent(id)
    \/ \E c \in Capabilities : HandoffToCapability(c)
    \/ \E c \in Capabilities, max_retries \in 0..MaxRetries :
          HandoffWithFallback(c, max_retries)
    \/ \E outcome \in InvocationOutcomes : HandoffInvocationEnds(outcome)

SpecHandoff == InitHandoff /\ [][NextHandoff]_vars

(***************************************************************************)
(* C28: handoff_with_fallback(capability, max_retries = N) tries at most   *)
(* N+1 distinct executors, the first ones of the list the directory        *)
(* returned and in its order; it stops at and returns the first success;   *)
(* a failure is swallowed whenever another executor is left to try; and it *)
(* raises only when every attempt failed, the error being the last         *)
(* attempt's.  (With nothing listed as available it returns none.)         *)
(***************************************************************************)
C28_FallbackTriesInOrder ==
    (handoff.call.kind = "fallback" /\ handoff.call.state # "lookup_raised")
        => LET call == handoff.call
               tried == call.attempts
               n == Len(tried)
               Failed(k) == tried[k].outcome \notin {"returned", "awaiting"}
           IN  /\ n <= call.max_retries + 1
               /\ n <= Len(call.agents)
               /\ \A k \in 1..n : tried[k].to = call.agents[k]
               /\ \A j, k \in 1..n : j # k => tried[j].to # tried[k].to
               /\ \A k \in 1..(n - 1) : Failed(k)
               /\ call.state \in {"awaiting", "returned", "raised", "returned_none"}
               /\ call.state = "awaiting" => n >= 1 /\ tried[n].outcome = "awaiting"
               /\ call.state = "returned" => n >= 1 /\ tried[n].outcome = "returned"
               /\ call.state = "raised"
                     => /\ n >= 1
                        /\ \A k \in 1..n : Failed(k)
                        /\ n = Min(Len(call.agents), call.max_retries + 1)
                        /\ call.error = [attempt |-> n, type |-> tried[n].outcome]
               /\ call.state = "returned_none" => n = 0 /\ call.agents = <<>>

\* With max_retries = 1 both listed executors were tried and failed with
\* different errors; the call raised the second one.
C28_Witness ==
    /\ handoff.call.kind = "fallback"
    /\ handoff.call.state = "raised"
    /\ handoff.call.max_retries = 1
    /\ Len(handoff.call.attempts) = 2
    /\ handoff.call.attempts[1].outcome # handoff.call.attempts[2].outcome
    /\ handoff.call.error.type = handoff.call.attempts[2].outcome

(***************************************************************************)
(* C29: the handoff audit trail records attempts, not successes.  Every    *)
(* handoff attempt against an executor (direct, capability-routed, each    *)
(* fallback attempt) has appended exactly one HandoffRecord before the     *)
(* executor is invoked, whether the invocation then succeeds or fails; the *)
(* history's length equals the controller's handoff count; and the history *)
(* is append-only: earlier records are never removed or changed.           *)
(***************************************************************************)
HandoffAttemptsRecorded ==
    /\ Len(handoff.history) = handoff.count
    /\ Len(handoff.history) = handoff.call.base + Len(handoff.call.attempts)
    /\ \A k \in 1..Len(handoff.call.attempts) :
           handoff.history[handoff.call.base + k]
               = HandoffRecord("orchestrator", handoff.call.attempts[k].to)

HandoffHistoryAppendOnly ==
    /\ Len(handoff.history) <= Len(handoff'.history)
    /\ SubSeq(handoff'.history, 1, Len(handoff.history)) = handoff.history

C29_HandoffAttemptsAudited ==
    []HandoffAttemptsRecorded /\ [][HandoffHistoryAppendOnly]_vars

\* A fallback call after an earlier handoff: its first attempt failed, its
\* second is suspended at the invocation, and all three attempts are in the
\* history already.
C29_Witness ==
    /\ handoff.call.kind = "fallback"
    /\ handoff.call.state = "awaiting"
    /\ handoff.call.base = 1
    /\ Len(handoff.call.attempts) = 2
    /\ Len(handoff.history) = 3

(***************************************************************************)
(* trail_discovery.py: TrailDiscovery.  SpecDisc: one TrailDiscovery under *)
(* successive discover_trails calls.  The candidate pool of a call is what *)
(* _extract_trails_from_finding yields for the findings passed: a list of  *)
(* suggestions (the same query may occur more than once), each with        *)
(* relevance 0.7 (in hundredths: SuggestionRelevance).                     *)
(***************************************************************************)
MaxPool == 3
MaxDiscoverCalls == 2

\* min_relevance: TrailConfig.min_relevance_score (0.6 by default), or a
\* stricter TRAIL_MIN_RELEVANCE; in hundredths.
MinRelevances == {60, 80}

ResearchTrailSuggestion(trail_query, relevance_score) ==
    [trail_query |-> trail_query, relevance_score |-> relevance_score]

\* The pools the findings of a call can give.
CandidatePools ==
    LET Suggestions == {ResearchTrailSuggestion(q, SuggestionRelevance) : q \in Queries}
    IN  SeqsUpTo(Suggestions, MaxPool)

\* list.sort(key=relevance_score, reverse=True): stable, highest first.
RECURSIVE insert_by_relevance(_, _)
insert_by_relevance(sorted, t) ==
    IF sorted = <<>> THEN <<t>>
    ELSE IF Head(sorted).relevance_score < t.relevance_score
    THEN <<t>> \o sorted
    ELSE <<Head(sorted)>> \o insert_by_relevance(Tail(sorted), t)

RECURSIVE sort_by_relevance(_, _)
sort_by_relevance(sorted, rest) ==
    IF rest = <<>> THEN sorted
    ELSE sort_by_relevance(insert_by_relevance(sorted, Head(rest)), Tail(rest))

\* The suggestions marked as discovered: those of the list given.
mark_discovered(discovered, trail_suggestions) ==
    discovered \cup {Lower(trail_suggestions[k].trail_query) :
                         k \in 1..Len(trail_suggestions)}

\* discover_trails(query, findings, max_trails): the list returned and the
\* new _discovered_trails.
discover_trails(D, pool, max_trails) ==
    LET NotDiscovered(t) == Lower(t.trail_query) \notin D.discovered
        Relevant(t) == t.relevance_score >= D.min_relevance
        survivors == sort_by_relevance(<<>>, SelectSeq(SelectSeq(pool, NotDiscovered),
                                                       Relevant))
        limited == SubSeq(survivors, 1, Min(Len(survivors), max_trails))
    IN  IF pool = <<>>
        THEN [returned |-> <<>>, discovered |-> D.discovered]
        ELSE [returned |-> limited,
              discovered |-> mark_discovered(D.discovered, limited)]

\* No discover_trails call made.
NoDiscoverCall == [pool |-> <<>>, max_trails |-> 0, returned |-> <<>>]

DiscInit ==
    /\ SMIdle
    /\ BudgetIdle
    /\ RunCoreIdle
    /\ par = [phase |-> "idle"]
    /\ registry = [phase |-> "idle"]
    /\ invocations = [phase |-> "idle"]
    /\ handoff = [phase |-> "idle"]
    /\ \E min_relevance \in MinRelevances :
          discovery = [min_relevance |-> min_relevance,
                       discovered |-> {},
                       calls |-> 0,
                       previous |-> NoDiscoverCall,
                       last |-> NoDiscoverCall]

DiscoverTrailsCall(pool, max_trails) ==
    /\ discovery.calls < MaxDiscoverCalls
    /\ LET r == discover_trails(discovery, pool, max_trails)
       IN  discovery' = [discovery EXCEPT
                             !.discovered = r.discovered,
                             !.calls = @ + 1,
                             !.previous = discovery.last,
                             !.last = [pool |-> pool, max_trails |-> max_trails,
                                       returned |-> r.returned]]
    /\ UNCHANGED <<sm_vars, budget_vars, pc, yields, escaped, config, plan, ctx_findings,
                   ctx_trails, suggestions, trails, tm, cur_trail, next_finding,
                   tm_last, tm_log, par, registry, invocations, handoff>>

InitDisc == DiscInit

NextDisc ==
    \E pool \in CandidatePools, max_trails \in 1..MaxTrailsPerRun :
        DiscoverTrailsCall(pool, max_trails)

SpecDisc == InitDisc /\ [][NextDisc]_vars

(***************************************************************************)
(* C30: of two successive discover_trails calls on the same TrailDiscovery *)
(* the second never returns a query that was in the first call's candidate *)
(* pool and passed the relevance filter, even if the candidate was cut     *)
(* from the first call's result only by the max_trails cap.                *)
(***************************************************************************)
C30_SurvivorsNeverReturnedAgain ==
    discovery.calls >= 2
        => \A k \in 1..Len(discovery.last.returned) :
               \A j \in 1..Len(discovery.previous.pool) :
                   discovery.previous.pool[j].relevance_score >= discovery.min_relevance
                       => discovery.previous.pool[j].trail_query
                              # discovery.last.returned[k].trail_query


(***************************************************************************)
(* C31: prioritize_trails() returns exactly the trails whose status is     *)
(* PENDING (never an ACTIVE, COMPLETED or ABANDONED one), each once,       *)
(* ordered by non-increasing relevance_score, and leaves the manager and   *)
(* the trails as they were.                                                *)
(***************************************************************************)
C31_PrioritizeReturnsPendingByRelevance ==
    tm_last.op = "prioritize_trails"
        => /\ {tm_last.result[k] : k \in 1..Len(tm_last.result)}
                  = {t \in 1..Len(trails) : trails[t].status = "PENDING"}
           /\ \A j, k \in 1..Len(tm_last.result) :
                  j # k => tm_last.result[j] # tm_last.result[k]
           /\ \A k \in 1..(Len(tm_last.result) - 1) :
                  trails[tm_last.result[k]].relevance_score
                      >= trails[tm_last.result[k + 1]].relevance_score
           /\ tm = tm_last.pre_tm
           /\ trails = tm_last.pre_trails

C31_Witness ==
    /\ tm_last.op = "prioritize_trails"
    /\ Len(tm_last.result) = 2
    /\ tm_last.result[1] > tm_last.result[2]
    /\ trails[tm_last.result[1]].relevance_score > trails[tm_last.result[2]].relevance_score
    /\ \E t \in 1..Len(trails) : trails[t].status \in {"COMPLETED", "ABANDONED"}


(***************************************************************************)
(* C32: in every reachable TrailManager state the breadcrumb set is        *)
(* exactly the set of lower-cased queries of the trails whose status is    *)
(* ACTIVE: the query of a PENDING trail is not a breadcrumb, a successful  *)
(* start_trail adds it, a successful complete_trail or abandon_trail       *)
(* removes it.                                                             *)
(***************************************************************************)
ActiveQueries ==
    {Lower(trails[t].trail_query) :
         t \in {u \in 1..Len(trails) : trails[u].status = "ACTIVE"}}

C32_BreadcrumbsAreActiveQueries ==
    /\ tm.breadcrumbs = ActiveQueries
    /\ \A t \in 1..Len(trails) :
           trails[t].status = "PENDING"
               => Lower(trails[t].trail_query) \notin tm.breadcrumbs
    /\ (tm_last.op = "start_trail" /\ tm_last.result = TRUE)
           => Lower(trails[tm_last.arg].trail_query) \in tm.breadcrumbs
    /\ (tm_last.op \in {"complete_trail", "abandon_trail"} /\ tm_last.result = TRUE)
           => Lower(trails[tm_last.arg].trail_query) \notin tm.breadcrumbs

C32_Witness ==
    /\ tm_last.op = "abandon_trail"
    /\ tm_last.result = TRUE
    /\ tm_last.pre_trails[tm_last.arg].status = "ACTIVE"
    /\ Lower(trails[tm_last.arg].trail_query) \in tm_last.pre_tm.breadcrumbs
    /\ tm.breadcrumbs = {}
    /\ \E t \in 1..Len(trails) : trails[t].status = "PENDING"


(***************************************************************************)
(* C33: execute_trail on a trail that cannot be started (its status is not *)
(* PENDING, or its id is unknown to the manager) is a silent no-op: the    *)
(* call returns the trail with every trail's status and findings and every *)
(* budget's usage unchanged, makes no search invocation, changes nothing   *)
(* in the manager and raises nothing.                                      *)
(***************************************************************************)
CannotBeStarted(t) == find_trail(tm, t) = 0 \/ trails[t].status # "PENDING"

ExecuteUnstartableIsNoOp ==
    \A k \in 1..MaxQueued :
        (/\ par.phase = "running"
         /\ k \in DOMAIN par.task
         /\ par.task[k] = "waiting"
         /\ par'.task[k] # "waiting"
         /\ CannotBeStarted(par.queue[k]))
            => /\ par'.task[k] = "done"
               /\ par'.results[k] = [kind |-> "trail", trail |-> par.queue[k]]
               /\ par'.semaphore = par.semaphore
               /\ trails' = trails
               /\ tm' = tm
               /\ usages' = usages
               /\ budgets' = budgets
               /\ next_finding' = next_finding

C33_UnstartableTrailIsNoOp == [][ExecuteUnstartableIsNoOp]_vars

\* Both cases have been returned by one parallel call: a trail unknown to the
\* manager that is still PENDING, and a trail listed twice whose second
\* execution found it ACTIVE while the first awaited its search.
C33_Witness ==
    /\ par.phase = "running"
    /\ \E k \in DOMAIN par.task :
          /\ par.task[k] = "done"
          /\ find_trail(tm, par.queue[k]) = 0
          /\ trails[par.queue[k]].status = "PENDING"
    /\ \E j, k \in DOMAIN par.task :
          /\ j < k
          /\ par.queue[j] = par.queue[k]
          /\ par.task[j] = "awaiting"
          /\ par.task[k] = "done"
          /\ trails[par.queue[k]].status = "ACTIVE"


(***************************************************************************)
(* C34: each invoke_agent_tool call that reaches the executor changes      *)
(* exactly one statistic by exactly one: call_count when the run returns,  *)
(* failure_count on any failure (a timeout included), and the failure is   *)
(* raised again; a call naming an unknown or a disabled executor raises    *)
(* its own error (ValueError, RuntimeError) without invoking anything and  *)
(* leaves both counters of every executor unchanged.                       *)
(***************************************************************************)
\* The statistics of every AgentInfo object other than `info` stay.
OtherStatisticsStay(info) ==
    \A other \in 1..Len(registry.reg.infos) :
        other # info
            => /\ registry'.reg.infos[other].call_count
                      = registry.reg.infos[other].call_count
               /\ registry'.reg.infos[other].failure_count
                      = registry.reg.infos[other].failure_count

InvocationGuarded ==
    invocations'.started = invocations.started + 1
        => LET called == invocations'.last
               info == get_agent(registry.reg, called.agent_id)
           IN  /\ called.info = info
               /\ ~called.returned
               /\ OtherStatisticsStay(0)
               /\ info = 0
                     => called.raised = "ValueError" /\ invocations'.per = invocations.per
               /\ (info # 0 /\ ~registry.reg.infos[info].is_available)
                     => called.raised = "RuntimeError" /\ invocations'.per = invocations.per
               /\ (info # 0 /\ registry.reg.infos[info].is_available)
                     => /\ called.raised = "none"
                        /\ invocations'.per[info].in_flight
                               = invocations.per[info].in_flight + 1

InvocationCountedOnce ==
    \A info \in 1..Len(invocations.per) :
        invocations'.per[info].in_flight < invocations.per[info].in_flight
            => LET before == registry.reg.infos[info]
                   after == registry'.reg.infos[info]
                   ended == invocations'.last
               IN  /\ ended.info = info
                   /\ OtherStatisticsStay(info)
                   /\ IF ended.returned
                      THEN /\ ended.raised = "none"
                           /\ after.call_count = before.call_count + 1
                           /\ after.failure_count = before.failure_count
                      ELSE /\ ended.raised \in {"TimeoutError", "Exception"}
                           /\ after.call_count = before.call_count
                           /\ after.failure_count = before.failure_count + 1

C34_InvocationStatistics == [][InvocationGuarded /\ InvocationCountedOnce]_vars

\* A timed-out invocation has been counted as the executor's only failure
\* after a call naming a disabled executor was turned away.
C34_Witness ==
    /\ invocations.rejected >= 1
    /\ invocations.last.raised = "TimeoutError"
    /\ registry.reg.infos[invocations.last.info].failure_count = 1
    /\ registry.reg.infos[invocations.last.info].call_count = 0
    /\ \E info \in 1..Len(registry.reg.infos) : ~registry.reg.infos[info].is_available


(***************************************************************************)
(* C35: the whole run stays under its budget: at every point of            *)
(* conduct_research the token usage and the API-call usage of the          *)
(* orchestrator's budget are at most max_tokens and max_api_calls.         *)
(***************************************************************************)
C35_RunStaysUnderBudget ==
    pc # "idle"
        => LET orchestrator == View(budgets, usages, 1)
           IN  /\ orchestrator.current_usage.tokens_used <= orchestrator.max_tokens
               /\ orchestrator.current_usage.api_calls <= orchestrator.max_api_calls


(***************************************************************************)
(* C36: the orchestrator never requests an illegal phase transition: in    *)
(* every conduct_research run the states requested through transition()   *)
(* form a path in the transition table that starts at INITIALIZING, no     *)
(* transition() call of the run raises StateTransitionError, and FAILED is *)
(* entered only through force_fail, after an error other than              *)
(* StateTransitionError.                                                   *)
(***************************************************************************)
C36_RunFollowsTransitionTable ==
    pc # "idle"
        => /\ state_history[1] = "INITIALIZING"
           /\ \A i \in 1..(Len(state_history) - 1) :
                  IF state_history[i + 1] = "FAILED"
                  THEN i + 1 = Len(state_history) /\ sm_last.op = "force_fail"
                  ELSE state_history[i + 1] \in TRANSITIONS[state_history[i]]
           /\ sm_last.raised # "StateTransitionError"
           /\ sm_last.op = "transition"
                 => /\ sm_last.arg \in TRANSITIONS[sm_last.pre.state] \ {"FAILED"}
                    /\ ctx_state = sm_last.arg
           /\ sm_last.op = "force_fail" => sm_last.arg \in AgentExceptions
           /\ ctx_state = "FAILED" <=> sm_last.op = "force_fail"

\* A run through every phase, trail following included, has completed.
C36_Witness ==
    /\ pc = "done"
    /\ state_history = <<"INITIALIZING", "CLARIFYING", "PLANNING", "SEARCHING",
                         "EVALUATING", "TRAIL_FOLLOWING", "SYNTHESIZING", "COMPLETED">>


(***************************************************************************)
(* C37: every trail that execute_trail manages to start eventually reaches *)
(* a terminal status: once execute_trail has returned, no trail it started *)
(* is still ACTIVE, the trail's query is no longer a breadcrumb and the    *)
(* trail no longer occupies a slot of the active list; so when             *)
(* conduct_research enters SYNTHESIZING the trail manager holds no PENDING *)
(* or ACTIVE trail.                                                        *)
(***************************************************************************)
TerminalStatus == {"COMPLETED", "ABANDONED"}

\* Trail t is finished and the manager has let go of it.
Released(t) ==
    /\ trails[t].status \in TerminalStatus
    /\ Lower(trails[t].trail_query) \notin tm.breadcrumbs
    /\ ~InSeq(t, tm.active)
    /\ InSeq(t, tm.completed)

NoTrailLeftOpen ==
    /\ \A t \in 1..Len(trails) :
           IF pc = "trail_await" /\ t = cur_trail
           THEN trails[t].status = "ACTIVE"
           ELSE Released(t)
    /\ ctx_state \in {"SYNTHESIZING", "COMPLETED"}
           => /\ \A t \in 1..Len(trails) : Released(t)
              /\ tm.active = <<>>
              /\ tm.breadcrumbs = {}

C38_BreadcrumbsSubsetOfVisited ==
    /\ tm.breadcrumbs \subseteq tm.visited
    /\ \A q \in Queries : would_create_loop(tm, q) => Lower(q) \in tm.visited
    /\ (tm_last.op = "create_trail" /\ would_create_loop(tm_last.pre_tm, tm_last.arg))
           => /\ tm_last.result = 0
              /\ Lower(tm_last.arg) \in tm_last.pre_tm.visited

\* create_trail has been turned away by the loop gate for a query spelled
\* differently from the ACTIVE trail's.
C38_Witness ==
    /\ tm_last.op = "create_trail"
    /\ tm_last.result = 0
    /\ would_create_loop(tm_last.pre_tm, tm_last.arg)
    /\ \E t \in 1..Len(trails) :
          /\ trails[t].status = "ACTIVE"
          /\ trails[t].trail_query # tm_last.arg
          /\ Lower(trails[t].trail_query) = Lower(tm_last.arg)


(***************************************************************************)
(* C39: for every budget state and every threshold t with 0 < t <= 1,      *)
(* is_exhausted() implies is_near_limit(t), also for a budget whose cap in *)
(* a dimension is zero (as allocate_for_trail produces by rounding down).  *)
(***************************************************************************)
C39_ExhaustedImpliesNearLimit ==
    \A i \in 1..Len(budgets) : \A t \in Thresholds :
        is_exhausted(View(budgets, usages, i)) => is_near_limit(View(budgets, usages, i), t)

====
